---- MODULE Spec2Model ----
(***************************************************************************)
(* File caching service (cmd/server/main.go): a read-through cache in      *)
(* front of an R2 bucket.  getFileHandler asks Redis first, falls back to  *)
(* R2, classifies an R2 failure, and populates Redis from a detached       *)
(* goroutine; healthHandler probes Redis (optional) and R2 (required).     *)
(*                                                                         *)
(* Texts that the code inspects (the requested name, the error message of  *)
(* R2Client.GetObject) are sequences of one-character strings, so that     *)
(* fmt.Errorf and strings.Contains are computed, not assumed.              *)
(***************************************************************************)
EXTENDS Integers, Sequences, FiniteSets, TLC

\* ------------------------------------------------------------------ bounds

\* Number of file requests of one behaviour; they may overlap.
MaxReqs == 2

\* Number of times the bucket's content is changed from outside the service.
MaxOriginChanges == 1

\* Number of health checks of one behaviour; they run one after the other.
MaxHealthChecks == 2

Reqs == 1..MaxReqs

\* ------------------------------------------------------------------- texts

Empty == <<>>

\* Requested names (r.PathValue("name")).
NameTxt == <<"t", "e", "s", "t", ".", "t", "x", "t">>
NameNoSuchKey == <<"N", "o", "S", "u", "c", "h", "K", "e", "y">>

Names == {Empty, NameTxt, NameNoSuchKey}

\* FileKey: the names that reach a backend.
Keys == Names \ {Empty}

\* File contents; NoData is a missing object (Go's nil []byte of an error path).
Bytes == {"b1", "b2"}
NoData == "nil"

\* What the stores hold at the start: the bucket's objects, and cache entries
\* written earlier (copies that differ from the bucket's present content).
InitialOrigin == {"b1"}
InitialCache == {"b2"}

\* Go's nil error.
NilErr == <<"<nil>">>

\* The two texts isNotFoundError looks for.
TxtNoSuchKey == <<"N", "o", "S", "u", "c", "h", "K", "e", "y">>
TxtNotFound == <<"n", "o", "t", " ", "f", "o", "u", "n", "d">>

\* Error texts of the S3 client, by kind of failure (the store's no-such-object
\* answer is an API error with the code NoSuchKey: TxtNoSuchKey above).
TxtDeadline == <<"c", "o", "n", "t", "e", "x", "t", " ", "d", "e", "a", "d", "l", "i", "n", "e", " ", "e", "x", "c", "e", "e", "d", "e", "d">>
TxtCanceled == <<"c", "o", "n", "t", "e", "x", "t", " ", "c", "a", "n", "c", "e", "l", "e", "d">>
TxtRefused == <<"c", "o", "n", "n", "e", "c", "t", "i", "o", "n", " ", "r", "e", "f", "u", "s", "e", "d">>
TxtEOF == <<"u", "n", "e", "x", "p", "e", "c", "t", "e", "d", " ", "E", "O", "F">>

\* fmt.Errorf("failed to get object %s: %w", key, err)
TxtGetPrefix == <<"f", "a", "i", "l", "e", "d", " ", "t", "o", " ", "g", "e", "t", " ", "o", "b", "j", "e", "c", "t", " ">>
TxtSep == <<":", " ">>
\* fmt.Errorf("failed to read object body: %w", err)
TxtReadPrefix == <<"f", "a", "i", "l", "e", "d", " ", "t", "o", " ", "r", "e", "a", "d", " ", "o", "b", "j", "e", "c", "t", " ", "b", "o", "d", "y", ":", " ">>

\* strings.Contains(s, sub)
Contains(s, sub) ==
    \E i \in 1..(Len(s) - Len(sub) + 1) : SubSeq(s, i, i + Len(sub) - 1) = sub

\* ------------------------------------------------------------ HTTP statuses

StatusOK == 200
StatusBadRequest == 400
StatusNotFound == 404
StatusInternalServerError == 500
StatusServiceUnavailable == 503
StatusGatewayTimeout == 504

\* --------------------------------------------------------------- responses

\* A map[string]string over the keys the health handler uses; a text made of
\* pieces is their concatenation, and the empty text is a key that is not set.
NoFields == [status |-> <<>>, redis |-> <<>>, r2 |-> <<>>]

\* Response{Success, Message, Data}
Response(success, message, data) ==
    [success |-> success, message |-> message, data |-> data]

\* ---------------------------------------------------------- content types

\* unicode.ToLower on the letters A-Z; every other character is itself.
UpperToLower ==
    [c \in {"A", "B", "C", "D", "E", "F", "G", "H", "I", "J", "K", "L", "M",
            "N", "O", "P", "Q", "R", "S", "T", "U", "V", "W", "X", "Y", "Z"} |->
        CASE c = "A" -> "a" [] c = "B" -> "b" [] c = "C" -> "c" [] c = "D" -> "d"
          [] c = "E" -> "e" [] c = "F" -> "f" [] c = "G" -> "g" [] c = "H" -> "h"
          [] c = "I" -> "i" [] c = "J" -> "j" [] c = "K" -> "k" [] c = "L" -> "l"
          [] c = "M" -> "m" [] c = "N" -> "n" [] c = "O" -> "o" [] c = "P" -> "p"
          [] c = "Q" -> "q" [] c = "R" -> "r" [] c = "S" -> "s" [] c = "T" -> "t"
          [] c = "U" -> "u" [] c = "V" -> "v" [] c = "W" -> "w" [] c = "X" -> "x"
          [] c = "Y" -> "y" [] c = "Z" -> "z"]

ToLower(s) ==
    [i \in 1..Len(s) |-> IF s[i] \in DOMAIN UpperToLower THEN UpperToLower[s[i]] ELSE s[i]]

\* filepath.Ext(path): the suffix from the last dot of the last element of
\* the path (the search stops at a separator), empty when there is no dot.
Ext(path) ==
    LET dots == {i \in 1..Len(path) :
                    /\ path[i] = "."
                    /\ \A j \in i..Len(path) : path[j] # "/"}
    IN IF dots = {} THEN <<>>
       ELSE LET last == CHOOSE i \in dots : \A j \in dots : j <= i
            IN SubSeq(path, last, Len(path))

\* The extensions of package mime's built-in table, lower case (the tables a
\* host adds from its mime.types files are not part of the program).
BuiltinTypesLower ==
    { <<<<".", "c", "s", "s">>, "text/css; charset=utf-8">>,
      <<<<".", "g", "i", "f">>, "image/gif">>,
      <<<<".", "h", "t", "m">>, "text/html; charset=utf-8">>,
      <<<<".", "h", "t", "m", "l">>, "text/html; charset=utf-8">>,
      <<<<".", "j", "p", "g">>, "image/jpeg">>,
      <<<<".", "j", "s">>, "text/javascript; charset=utf-8">>,
      <<<<".", "j", "s", "o", "n">>, "application/json">>,
      <<<<".", "p", "d", "f">>, "application/pdf">>,
      <<<<".", "p", "n", "g">>, "image/png">>,
      <<<<".", "x", "m", "l">>, "text/xml; charset=utf-8">> }

\* mime.TypeByExtension(ext): the type of the extension as it is, then of
\* the extension in lower case, and the empty text when there is none.
TypeByExtension(ext) ==
    LET exact == {e \in BuiltinTypesLower : e[1] = ext}
        lower == {e \in BuiltinTypesLower : e[1] = ToLower(ext)}
    IN IF exact # {} THEN (CHOOSE e \in exact : TRUE)[2]
       ELSE IF lower # {} THEN (CHOOSE e \in lower : TRUE)[2]
       ELSE ""

\* A Content-Type taken from the first bytes of the body and not from the
\* name.
ContentType_Sniffed(filename, data) ==
    IF data = "b1" THEN "text/plain; charset=utf-8" ELSE "application/octet-stream"

\* writeFileResponse's contentType.
ContentType(filename, data) ==
    LET contentType == TypeByExtension(Ext(filename))
    IN IF contentType = "" THEN "application/octet-stream" ELSE contentType

\* "inline; filename=\"" and the closing quote of writeFileResponse.
TxtInline == <<"i", "n", "l", "i", "n", "e", ";", " ", "f", "i", "l", "e", "n", "a", "m", "e", "=", "\"">>
TxtQuote == <<"\"">>

\* Nothing written yet.  disposition is the Content-Disposition header, the
\* empty text when it is not set.
NoResponse ==
    [kind |-> "none", status |-> 0, body |-> NoData, disposition |-> <<>>,
     contentType |-> "", json |-> Response(FALSE, "", NoFields)]

\* writeJSON(w, status, data): the status and the JSON envelope.
writeJSON(status, data) ==
    [kind |-> "json", status |-> status, body |-> NoData, disposition |-> <<>>,
     contentType |-> "application/json", json |-> data]

\* writeFileResponse that leaves out the quotes around the name.
writeFileResponse_Unquoted(filename, data) ==
    [kind |-> "file", status |-> StatusOK, body |-> data,
     disposition |-> <<"i", "n", "l", "i", "n", "e", ";", " ", "f", "i", "l", "e", "n", "a", "m", "e", "=">> \o filename,
     contentType |-> ContentType(filename, data),
     json |-> Response(FALSE, "", NoFields)]

\* writeFileResponse(w, filename, data): 200, the Content-Disposition header
\* and the bytes as the body.
writeFileResponse(filename, data) ==
    [kind |-> "file", status |-> StatusOK, body |-> data,
     disposition |-> TxtInline \o filename \o TxtQuote,
     contentType |-> ContentType(filename, data),
     json |-> Response(FALSE, "", NoFields)]

\* ----------------------------------------------------------- cache client

\* The Redis server's answer to GET key: its failure, redis.Nil, or the value.
RedisNil == <<"redis: nil">>
RedisFailure == <<"redis unavailable">>

RedisClientGet(c, key, fail) ==
    IF fail THEN [data |-> NoData, err |-> RedisFailure]
    ELSE IF c[key] = NoData THEN [data |-> NoData, err |-> RedisNil]
    ELSE [data |-> c[key], err |-> NilErr]

\* RedisCache.Get that reports a stored value with found false.
RedisCacheGet_FoundFalse(c, key, fail) ==
    LET r == RedisClientGet(c, key, fail) IN
    IF r.err = RedisNil THEN [data |-> NoData, found |-> FALSE, err |-> NilErr]
    ELSE IF r.err # NilErr
         THEN [data |-> NoData, found |-> FALSE, err |-> <<"redis get error: ">> \o r.err]
    ELSE [data |-> r.data, found |-> FALSE, err |-> NilErr]

\* RedisCache.Get that does not single out redis.Nil: a missing key is an
\* error like any other.
RedisCacheGet_NilIsError(c, key, fail) ==
    LET r == RedisClientGet(c, key, fail) IN
    IF r.err # NilErr
    THEN [data |-> NoData, found |-> FALSE, err |-> <<"redis get error: ">> \o r.err]
    ELSE [data |-> r.data, found |-> TRUE, err |-> NilErr]

\* RedisCache.Get: (data, found, err)
RedisCacheGet(c, key, fail) ==
    LET r == RedisClientGet(c, key, fail) IN
    IF r.err = RedisNil THEN [data |-> NoData, found |-> FALSE, err |-> NilErr]
    ELSE IF r.err # NilErr
         THEN [data |-> NoData, found |-> FALSE, err |-> <<"redis get error: ">> \o r.err]
    ELSE [data |-> r.data, found |-> TRUE, err |-> NilErr]

\* RedisCache.Set that reports success without storing the value.
RedisCacheSet_Dropped(c, key, data, fail) ==
    IF fail THEN [cache |-> c, err |-> <<"redis set error: ">> \o RedisFailure]
    ELSE [cache |-> c, err |-> NilErr]

\* RedisCache.Set that spoils an entry it finds in place instead of
\* replacing it.
RedisCacheSet_ClobbersOnRewrite(c, key, data, fail) ==
    IF fail THEN [cache |-> c, err |-> <<"redis set error: ">> \o RedisFailure]
    ELSE [cache |-> [c EXCEPT ![key] = IF c[key] = NoData THEN data
                                       ELSE CHOOSE b \in Bytes : b # data],
          err |-> NilErr]

\* RedisCache.Set: the cache after the call, and err
RedisCacheSet(c, key, data, fail) ==
    IF fail THEN [cache |-> c, err |-> <<"redis set error: ">> \o RedisFailure]
    ELSE [cache |-> [c EXCEPT ![key] = data], err |-> NilErr]

\* --------------------------------------------------------- storage client

\* The S3 client's GetObject: its failure, the store's no-such-object signal,
\* or the object's body.
S3GetObject(o, key, failure) ==
    IF failure # NilErr THEN [body |-> NoData, err |-> failure]
    ELSE IF o[key] = NoData THEN [body |-> NoData, err |-> TxtNoSuchKey]
    ELSE [body |-> o[key], err |-> NilErr]

\* R2Client.GetObject that returns without reading the body.
R2GetObject_BodyNotRead(o, key, failure, readFailure) ==
    LET out == S3GetObject(o, key, failure) IN
    IF out.err # NilErr
    THEN [data |-> NoData, err |-> TxtGetPrefix \o key \o TxtSep \o out.err]
    ELSE [data |-> NoData, err |-> NilErr]

\* R2Client.GetObject: (data, err)
R2GetObject(o, key, failure, readFailure) ==
    LET out == S3GetObject(o, key, failure) IN
    IF out.err # NilErr
    THEN [data |-> NoData, err |-> TxtGetPrefix \o key \o TxtSep \o out.err]
    ELSE IF readFailure # NilErr
         THEN [data |-> NoData, err |-> TxtReadPrefix \o readFailure]
    ELSE [data |-> out.body, err |-> NilErr]

\* The S3 client's HeadObject: its failure, the store's 404 for a missing
\* object, or no error.
TxtHeadNotFound == <<"N", "o", "t", "F", "o", "u", "n", "d">>
S3HeadObject(o, key, failure) ==
    IF failure # NilErr THEN failure
    ELSE IF o[key] = NoData THEN TxtHeadNotFound
    ELSE NilErr

\* R2Client.ObjectExists that passes on every failure but the store's 404.
R2ObjectExists_ReportsFailure(o, key, failure) ==
    LET err == S3HeadObject(o, key, failure) IN
    IF err = TxtHeadNotFound THEN [exists |-> FALSE, err |-> NilErr]
    ELSE IF err # NilErr THEN [exists |-> FALSE, err |-> err]
    ELSE [exists |-> TRUE, err |-> NilErr]

\* R2Client.ObjectExists: (exists, err)
R2ObjectExists(o, key, failure) ==
    LET err == S3HeadObject(o, key, failure) IN
    IF err # NilErr THEN [exists |-> FALSE, err |-> NilErr]
    ELSE [exists |-> TRUE, err |-> NilErr]

\* fmt.Errorf("failed to put object %s: %w", key, err)
TxtPutPrefix == <<"f", "a", "i", "l", "e", "d", " ", "t", "o", " ", "p", "u", "t", " ", "o", "b", "j", "e", "c", "t", " ">>
\* fmt.Errorf("failed to delete object %s: %w", key, err)
TxtDeletePrefix == <<"f", "a", "i", "l", "e", "d", " ", "t", "o", " ", "d", "e", "l", "e", "t", "e", " ", "o", "b", "j", "e", "c", "t", " ">>

\* R2Client.PutObject: the bucket after the call, and err
R2PutObject(o, key, data, failure) ==
    IF failure # NilErr
    THEN [origin |-> o, err |-> TxtPutPrefix \o key \o TxtSep \o failure]
    ELSE [origin |-> [o EXCEPT ![key] = data], err |-> NilErr]

\* R2Client.DeleteObject: the bucket after the call, and err
R2DeleteObject(o, key, failure) ==
    IF failure # NilErr
    THEN [origin |-> o, err |-> TxtDeletePrefix \o key \o TxtSep \o failure]
    ELSE [origin |-> [o EXCEPT ![key] = NoData], err |-> NilErr]

\* isNotFoundError that looks for "not found" only.
isNotFoundError_OneText(err) ==
    Contains(err, TxtNotFound)

\* isNotFoundError(err)
isNotFoundError(err) ==
    Contains(err, TxtNoSuchKey) \/ Contains(err, TxtNotFound)

\* The answer to a failed fetch with the not-found check before the deadline
\* check.
OriginFailureResponse_NotFoundFirst(ctxErr, err) ==
    IF Contains(err, TxtNoSuchKey) \/ Contains(err, TxtNotFound)
    THEN writeJSON(StatusNotFound, Response(FALSE, "File not found", NoFields))
    ELSE IF ctxErr = "DeadlineExceeded"
         THEN writeJSON(StatusGatewayTimeout, Response(FALSE, "Request timeout", NoFields))
    ELSE writeJSON(StatusInternalServerError,
                   Response(FALSE, "Failed to retrieve file", NoFields))

\* The answer to a failed fetch that hands the error's text to the client.
OriginFailureResponse_LeaksError(ctxErr, err) ==
    IF ctxErr = "DeadlineExceeded"
    THEN writeJSON(StatusGatewayTimeout, Response(FALSE, "Request timeout", NoFields))
    ELSE IF Contains(err, TxtNoSuchKey) \/ Contains(err, TxtNotFound)
         THEN writeJSON(StatusNotFound, Response(FALSE, "File not found", NoFields))
    ELSE writeJSON(StatusInternalServerError,
                   Response(FALSE, "Failed to retrieve file",
                            [NoFields EXCEPT !.status = err]))

\* getFileHandler's answer to a failed R2 fetch; ctxErr is ctx.Err().
OriginFailureResponse(ctxErr, err) ==
    IF ctxErr = "DeadlineExceeded"
    THEN writeJSON(StatusGatewayTimeout, Response(FALSE, "Request timeout", NoFields))
    ELSE IF isNotFoundError(err)
         THEN writeJSON(StatusNotFound, Response(FALSE, "File not found", NoFields))
    ELSE writeJSON(StatusInternalServerError,
                   Response(FALSE, "Failed to retrieve file", NoFields))

\* ------------------------------------------------------------------- state

VARIABLES
    cacheEnabled,   \* fileCache != nil
    cache,          \* what Redis holds: key -> bytes, NoData when absent
    cacheBy,        \* which request's population wrote the entry (0: none)
    origin,         \* what the bucket holds: key -> bytes, NoData when absent
    originChanges,  \* how often the bucket was changed from outside
    metrics,        \* the counters of package metrics
    client,         \* the last call of a client method made on its own
    req,            \* the file requests: one run of getFileHandler each
    bg,             \* the population goroutine each request launched
    hc,             \* the health check: the running or the last healthHandler
    startup,        \* what main found when the process started
    config,         \* the environment read and the Config that Load made of it
    shaped,         \* a name and bytes handed to writeFileResponse, and what it wrote
    originWas       \* the values the bucket has held for each key, now or before

vars ==
    <<cacheEnabled, cache, cacheBy, origin, originWas, originChanges, req, bg, hc,
      startup, config, shaped, metrics, client>>

\* A request that has not arrived.  ctx is the state of the handler's
\* context: "none" before context.WithTimeout, "live" while ctx.Err() is nil,
\* then "DeadlineExceeded" or "Canceled" (the first cause stays).
IdleRequest ==
    [pc |-> "idle", name |-> Empty, ctx |-> "none",
     lookup |-> "none",       \* what the cache lookup gave: hit, miss, error
     held |-> NoData,         \* what Redis answered the lookup from (no failure)
     fetch |-> "none",        \* how the R2 fetch ended: ok, failed
     cause |-> NilErr,        \* the S3 client's (or body reader's) error
     heldBy |-> 0,            \* the request whose population wrote that entry
     originHeld |-> NoData,   \* what the bucket answered the fetch from (no failure)
     data |-> NoData,         \* the handler's data variable
     nCacheGet |-> 0, nOriginGet |-> 0, nResponses |-> 0,
     resp |-> NoResponse]

\* A goroutine that was never launched.  redisFailed is whether Redis failed
\* the goroutine's Set, and reqCtx the state of the request's context when the
\* Set returned.
NoTask ==
    [state |-> "none", key |-> Empty, data |-> NoData, nCacheSet |-> 0,
     redisFailed |-> FALSE, reqCtx |-> "none"]

\* No health check yet.  pingErr and probeErr are what the two probes of the
\* check returned; started is the state of ctx when the R2 probe was called,
\* and originErr is what the bucket itself has to say to a probe (NilErr: it
\* is reachable).
NoCheck ==
    [pc |-> "idle", ctx |-> "none", checks |-> 0, health |-> NoFields,
     pingErr |-> NilErr, probeErr |-> NilErr, nPing |-> 0, nProbe |-> 0,
     started |-> "none", originErr |-> NilErr,
     caller |-> "none",       \* the state of r.Context()
     timedOut |-> FALSE,      \* the check's own timeout has passed
     last |-> NoResponse,     \* the answer of the check before this one
     resp |-> NoResponse]

\* cfg.Redis.Mode, and what Redis answers the Ping of NewRedisCache with.
RedisModes == {"enabled", "disabled"}
StartupPings == {NilErr, TxtRefused, TxtDeadline}

\* fmt.Errorf("failed to connect to Redis: %w", err)
ConnectError(err) ==
    <<"f", "a", "i", "l", "e", "d", " ", "t", "o", " ", "c", "o", "n", "n", "e", "c", "t", " ", "t", "o", " ", "R", "e", "d", "i", "s", ":", " ">> \o err

\* cache.NewRedisCache: the client and no error when the Ping succeeds, no
\* client and the wrapped error otherwise.
NewRedisCache(pingErr) ==
    IF pingErr # NilErr
    THEN [client |-> FALSE, err |-> ConnectError(pingErr)]
    ELSE [client |-> TRUE, err |-> NilErr]

\* The start that keeps the client of a Redis it could not reach.
InitCache_IgnoresError(mode, pingErr) == mode = "enabled"

\* main's switch on cfg.Redis.Mode: whether fileCache is non-nil after it.
InitCache(mode, pingErr) ==
    IF mode = "disabled"
    THEN FALSE
    ELSE LET made == NewRedisCache(pingErr)
         IN IF made.err # NilErr THEN FALSE ELSE made.client

\* ------------------------------------------------------------ configuration

\* time.Duration, counted in milliseconds.
Millisecond == 1
Second == 1000 * Millisecond
Minute == 60 * Second
Hour == 60 * Minute

\* The environment: the value of a variable that is not set.
Unset == <<"<unset>">>

\* os.Getenv(key)
Getenv(env, key) == IF env[key] = Unset THEN Empty ELSE env[key]

DigitChars == {"0", "1", "2", "3", "4", "5", "6", "7", "8", "9"}
DigitOf(c) ==
    CASE c = "0" -> 0 [] c = "1" -> 1 [] c = "2" -> 2 [] c = "3" -> 3 [] c = "4" -> 4
      [] c = "5" -> 5 [] c = "6" -> 6 [] c = "7" -> 7 [] c = "8" -> 8 [] c = "9" -> 9

\* The value of a run of decimal digits.
RECURSIVE Number(_)
Number(s) ==
    IF s = Empty THEN 0
    ELSE 10 * Number(SubSeq(s, 1, Len(s) - 1)) + DigitOf(s[Len(s)])

RECURSIVE Pow10(_)
Pow10(n) == IF n = 0 THEN 1 ELSE 10 * Pow10(n - 1)

\* The length of the longest prefix of s made of characters for which
\* digit-or-not is as asked.
PrefixLen(s, digits) ==
    CHOOSE n \in 0..Len(s) :
        /\ \A i \in 1..n : (s[i] \in DigitChars) = digits
        /\ n < Len(s) => (s[n + 1] \in DigitChars) # digits

\* strconv.Atoi(s): an optional sign and at least one digit, nothing else.
Atoi(s) ==
    LET signed == s # Empty /\ s[1] \in {"+", "-"}
        digits == IF signed THEN Tail(s) ELSE s
    IN IF digits = Empty \/ \E i \in 1..Len(digits) : digits[i] \notin DigitChars
       THEN [ok |-> FALSE, val |-> 0]
       ELSE [ok |-> TRUE,
             val |-> IF signed /\ s[1] = "-" THEN 0 - Number(digits) ELSE Number(digits)]

\* unitMap of time.ParseDuration: how many milliseconds (mul / div) a unit is.
UnitNames == {<<"n", "s">>, <<"u", "s">>, <<"m", "s">>, <<"s">>, <<"m">>, <<"h">>}
UnitMul(unit) ==
    CASE unit = <<"h">> -> Hour [] unit = <<"m">> -> Minute [] unit = <<"s">> -> Second
      [] OTHER -> Millisecond
UnitDiv(unit) ==
    CASE unit = <<"n", "s">> -> 1000000 [] unit = <<"u", "s">> -> 1000 [] OTHER -> 1

\* The loop of time.ParseDuration over the groups [0-9]*(\.[0-9]*)?[a-z]+ of
\* s: each is digits, an optional fraction, and a unit that runs up to the
\* next digit or dot.
RECURSIVE Groups(_)
Groups(s) ==
    IF s = Empty THEN [ok |-> TRUE, val |-> 0]
    ELSE LET n == PrefixLen(s, TRUE)
             afterInt == SubSeq(s, n + 1, Len(s))
             hasDot == afterInt # Empty /\ afterInt[1] = "."
             fracOn == IF hasDot THEN Tail(afterInt) ELSE afterInt
             f == IF hasDot THEN PrefixLen(fracOn, TRUE) ELSE 0
             afterNum == SubSeq(fracOn, f + 1, Len(fracOn))
             u == CHOOSE k \in 0..Len(afterNum) :
                      /\ \A i \in 1..k : afterNum[i] \notin DigitChars \cup {"."}
                      /\ k < Len(afterNum) => afterNum[k + 1] \in DigitChars \cup {"."}
             unit == SubSeq(afterNum, 1, u)
             rest == Groups(SubSeq(afterNum, u + 1, Len(afterNum)))
         IN IF (n = 0 /\ f = 0) \/ unit \notin UnitNames \/ ~rest.ok
            THEN [ok |-> FALSE, val |-> 0]
            ELSE [ok |-> TRUE,
                  val |-> (Number(SubSeq(s, 1, n)) * UnitMul(unit)) \div UnitDiv(unit)
                          + (Number(SubSeq(fracOn, 1, f)) * UnitMul(unit))
                                \div (UnitDiv(unit) * Pow10(f))
                          + rest.val]

\* time.ParseDuration(s): an optional sign, then "0" or a run of groups.
ParseDuration(s) ==
    LET signed == s # Empty /\ s[1] \in {"+", "-"}
        body == IF signed THEN Tail(s) ELSE s
        parsed == Groups(body)
    IN IF body = <<"0">> THEN [ok |-> TRUE, val |-> 0]
       ELSE IF body = Empty \/ ~parsed.ok THEN [ok |-> FALSE, val |-> 0]
       ELSE [ok |-> TRUE,
             val |-> IF signed /\ s[1] = "-" THEN 0 - parsed.val ELSE parsed.val]

getEnv(env, key, defaultValue) ==
    IF Getenv(env, key) # Empty THEN Getenv(env, key) ELSE defaultValue

getEnvAsInt(env, key, defaultValue) ==
    IF Getenv(env, key) # Empty /\ Atoi(Getenv(env, key)).ok
    THEN Atoi(Getenv(env, key)).val
    ELSE defaultValue

getEnvAsDuration(env, key, defaultValue) ==
    IF Getenv(env, key) # Empty /\ ParseDuration(Getenv(env, key)).ok
    THEN ParseDuration(Getenv(env, key)).val
    ELSE defaultValue

TxtPort8080 == <<"8", "0", "8", "0">>
TxtLocalhost == <<"l", "o", "c", "a", "l", "h", "o", "s", "t", ":", "6", "3", "7", "9">>

\* config.Load
Load(env) ==
    [Port |-> getEnv(env, "PORT", TxtPort8080),
     Redis |-> [Addr |-> getEnv(env, "REDIS_ADDR", TxtLocalhost),
                Password |-> getEnv(env, "REDIS_PASSWORD", Empty),
                DB |-> getEnvAsInt(env, "REDIS_DB", 0),
                CacheTTL |-> getEnvAsDuration(env, "CACHE_TTL", 5 * Minute)],
     R2 |-> [AccountID |-> getEnv(env, "R2_ACCOUNT_ID", Empty),
             AccessKeyID |-> getEnv(env, "R2_ACCESS_KEY_ID", Empty),
             SecretAccessKey |-> getEnv(env, "R2_SECRET_ACCESS_KEY", Empty),
             BucketName |-> getEnv(env, "R2_BUCKET_NAME", Empty)]]

\* The environments config.Load is tried on.
EnvKeys ==
    {"PORT", "REDIS_ADDR", "REDIS_PASSWORD", "REDIS_DB", "CACHE_TTL",
     "R2_ACCOUNT_ID", "R2_ACCESS_KEY_ID", "R2_SECRET_ACCESS_KEY", "R2_BUCKET_NAME"}
PortTexts == {Unset, Empty, <<"9", "0", "9", "0">>}
AddrTexts == {Unset, Empty, <<"r", "e", "d", "i", "s", ":", "6", "3", "8", "0">>}
SecretTexts == {Unset, <<"p", "w">>}
DBTexts == {Unset, Empty, <<"0">>, <<"1">>, <<"1", "5">>, <<"-", "1">>, <<"+", "3">>, <<"1", "x">>, <<"d", "b">>}
TTLTexts ==
    {Unset, Empty, <<"1", "h">>, <<"3", "0", "m">>, <<"2", "h">>, <<"2", "4", "h">>, <<"1", "h", "3", "0", "m">>, <<"1", ".", "5", "h">>,
     <<"9", "0", "s">>, <<"0">>, <<"1", "0">>, <<"5", " ", "m">>, <<"s", "o", "o", "n">>}
\* The environment with the given values; the password and the four R2
\* variables share one.
Env(port, addr, db, ttl, secret) ==
    [key \in EnvKeys |->
        CASE key = "PORT" -> port
          [] key = "REDIS_ADDR" -> addr
          [] key = "REDIS_DB" -> db
          [] key = "CACHE_TTL" -> ttl
          [] OTHER -> secret]

\* No client method called on its own yet.
NoCall == [fn |-> "none"]

\* The counters at the start of the process.
NoMetrics ==
    [CacheHitsTotal |-> 0, CacheMissesTotal |-> 0, R2Success |-> 0, R2Error |-> 0]

\* The handler that counts a failed lookup neither as a hit nor as a miss.
CountLookup_ErrorUncounted(m, got) ==
    IF got.err # NilErr THEN m
    ELSE IF got.found THEN [m EXCEPT !.CacheHitsTotal = @ + 1]
    ELSE [m EXCEPT !.CacheMissesTotal = @ + 1]

\* The counters after fileCache.Get returned got: CacheHitsTotal.Inc() when
\* found, CacheMissesTotal.Inc() otherwise.
CountLookup(m, got) ==
    IF got.found THEN [m EXCEPT !.CacheHitsTotal = @ + 1]
    ELSE [m EXCEPT !.CacheMissesTotal = @ + 1]

\* The counters after fileStorage.GetObject returned err:
\* R2RequestsTotal.WithLabelValues("get", "error" or "success").Inc().
CountFetch(m, err) ==
    IF err # NilErr THEN [m EXCEPT !.R2Error = @ + 1]
    ELSE [m EXCEPT !.R2Success = @ + 1]

\* Placeholders of Load and of writeFileResponse.
NoConfig == [loaded |-> FALSE]
NoShape == [name |-> Empty, data |-> NoData, resp |-> NoResponse]

Init ==
    /\ startup \in [mode : RedisModes, pingErr : StartupPings]
    /\ cacheEnabled = InitCache(startup.mode, startup.pingErr)
    /\ cache \in [Keys -> InitialCache \cup {NoData}]
    /\ ~cacheEnabled => cache = [k \in Keys |-> NoData]
    /\ cacheBy = [k \in Keys |-> 0]
    /\ origin \in [Keys -> InitialOrigin \cup {NoData}]
    /\ originWas = [k \in Keys |-> {origin[k]}]
    /\ originChanges = 0
    /\ metrics = NoMetrics
    /\ client = NoCall
    /\ config = NoConfig
    /\ shaped = NoShape
    /\ req = [r \in Reqs |-> IdleRequest]
    /\ bg = [r \in Reqs |-> NoTask]
    /\ hc = NoCheck

\* ctx.Err()
CtxErr(c) == IF c \in {"DeadlineExceeded", "Canceled"} THEN c ELSE "nil"

\* defer cancel(): cancelling a context that is already done changes nothing.
Cancel(c) == IF c = "live" THEN "Canceled" ELSE c

\* The handler returns after writing response w.
Return(q, w) ==
    [q EXCEPT !.pc = "done", !.resp = w, !.nResponses = @ + 1, !.ctx = Cancel(@)]

\* ----------------------------------------------------------- getFileHandler

\* The handler that asks R2 without asking the cache first.
Arrive_SkipsLookup(r, name) ==
    /\ req[r].pc = "idle"
    /\ \A p \in Reqs : p < r => req[p].pc # "idle"
    /\ req' = [req EXCEPT ![r] =
         IF name = Empty
         THEN [Return(@, writeJSON(StatusBadRequest,
                                   Response(FALSE, "filename is required", NoFields)))
                 EXCEPT !.ctx = "none"]
         ELSE [@ EXCEPT !.name = name, !.ctx = "live", !.pc = "originGet"]]
    /\ UNCHANGED <<startup, config, shaped, cacheEnabled, client, metrics,
                    cache, cacheBy, origin, originWas, originChanges, bg, hc>>

\* The handler without the check of the name.
Arrive_NoValidation(r, name) ==
    /\ req[r].pc = "idle"
    /\ \A p \in Reqs : p < r => req[p].pc # "idle"
    /\ req' = [req EXCEPT ![r] =
         [@ EXCEPT !.name = name, !.ctx = "live",
                   !.pc = IF cacheEnabled THEN "cacheGet" ELSE "originGet"]]
    /\ UNCHANGED <<startup, config, shaped, cacheEnabled, client, metrics,
                    cache, cacheBy, origin, originWas, originChanges, bg, hc>>

\* The request arrives: the empty name is rejected at once; any other name
\* gets a context with the request timeout and goes to the cache, or, with
\* no cache configured, straight to R2.
Arrive(r, name) ==
    /\ req[r].pc = "idle"
    /\ \A p \in Reqs : p < r => req[p].pc # "idle"
    /\ req' = [req EXCEPT ![r] =
         IF name = Empty
         THEN [Return(@, writeJSON(StatusBadRequest,
                                   Response(FALSE, "filename is required", NoFields)))
                 EXCEPT !.ctx = "none"]
         ELSE [@ EXCEPT !.name = name, !.ctx = "live",
                        !.pc = IF cacheEnabled THEN "cacheGet" ELSE "originGet"]]
    /\ UNCHANGED <<startup, config, shaped, cacheEnabled, client, metrics,
                    cache, cacheBy, origin, originWas, originChanges, bg, hc>>

\* The handler that answers a failed cache lookup with 500.
CacheLookup_ErrorIs500(r, fail) ==
    /\ req[r].pc = "cacheGet"
    /\ LET got == RedisCacheGet(cache, req[r].name, fail)
           q == [req[r] EXCEPT !.nCacheGet = @ + 1,
                               !.held = IF fail THEN NoData ELSE cache[req[r].name],
                               !.heldBy = IF fail THEN 0 ELSE cacheBy[req[r].name],
                               !.lookup = IF got.found THEN "hit"
                                          ELSE IF got.err # NilErr THEN "error"
                                          ELSE "miss"]
       IN req' = [req EXCEPT ![r] =
            IF got.err # NilErr
            THEN Return(q, writeJSON(StatusInternalServerError,
                                     Response(FALSE, "Failed to retrieve file", NoFields)))
            ELSE IF got.found
            THEN Return([q EXCEPT !.data = got.data],
                        writeFileResponse(q.name, got.data))
            ELSE [q EXCEPT !.pc = "originGet"]]
    /\ metrics' = CountLookup(metrics, RedisCacheGet(cache, req[r].name, fail))
    /\ UNCHANGED <<startup, config, shaped, cacheEnabled, client,
                    cache, cacheBy, origin, originWas, originChanges, bg, hc>>

\* fileCache.Get returns: a hit is answered from the cache, anything else
\* (a miss, an error) goes on to R2.
CacheLookup(r, fail) ==
    /\ req[r].pc = "cacheGet"
    /\ LET got == RedisCacheGet(cache, req[r].name, fail)
           q == [req[r] EXCEPT !.nCacheGet = @ + 1,
                               !.held = IF fail THEN NoData ELSE cache[req[r].name],
                               !.heldBy = IF fail THEN 0 ELSE cacheBy[req[r].name],
                               !.lookup = IF got.found THEN "hit"
                                          ELSE IF got.err # NilErr THEN "error"
                                          ELSE "miss"]
       IN req' = [req EXCEPT ![r] =
            IF got.found
            THEN Return([q EXCEPT !.data = got.data],
                        writeFileResponse(q.name, got.data))
            ELSE [q EXCEPT !.pc = "originGet"]]
    /\ metrics' = CountLookup(metrics, RedisCacheGet(cache, req[r].name, fail))
    /\ UNCHANGED <<startup, config, shaped, cacheEnabled, client,
                    cache, cacheBy, origin, originWas, originChanges, bg, hc>>

\* The failures the S3 client can report under a context in state c: none,
\* an unreachable store, a timeout (the context's, or one of the client's
\* own), and the context's cancellation.
S3Failures(c) ==
    {NilErr, TxtRefused, TxtDeadline}
        \cup (IF c = "Canceled" THEN {TxtCanceled} ELSE {})

ReadFailures == {NilErr, TxtEOF}

\* The handler with a single flight per key: a request whose name another
\* request is already populating launches no goroutine of its own.
OriginFetch_SingleFlight(r, failure, readFailure) ==
    /\ req[r].pc = "originGet"
    /\ failure \in S3Failures(req[r].ctx)
    /\ LET got == R2GetObject(origin, req[r].name, failure, readFailure)
           s3 == S3GetObject(origin, req[r].name, failure)
           q == [req[r] EXCEPT !.nOriginGet = @ + 1,
                               !.originHeld = IF failure # NilErr \/ readFailure # NilErr
                                               THEN NoData ELSE origin[req[r].name],
                               !.cause = IF s3.err # NilErr THEN s3.err ELSE readFailure,
                               !.fetch = IF got.err # NilErr THEN "failed" ELSE "ok"]
           inFlight == \E p \in Reqs \ {r} :
                          bg[p].state = "launched" /\ bg[p].key = q.name
       IN IF got.err # NilErr
          THEN /\ req' = [req EXCEPT ![r] =
                       Return(q, OriginFailureResponse(CtxErr(q.ctx), got.err))]
               /\ bg' = bg
          ELSE /\ req' = [req EXCEPT ![r] = [q EXCEPT !.data = got.data, !.pc = "respond"]]
               /\ bg' = IF cacheEnabled /\ ~inFlight
                        THEN [bg EXCEPT ![r] = [NoTask EXCEPT !.state = "launched",
                                                               !.key = q.name,
                                                               !.data = got.data]]
                        ELSE bg
    /\ metrics' = CountFetch(metrics,
                           R2GetObject(origin, req[r].name, failure, readFailure).err)
    /\ UNCHANGED <<startup, config, shaped, cacheEnabled, client,
                    cache, cacheBy, origin, originWas, originChanges, hc>>

\* The handler that launches the goroutine before it looks at err.
OriginFetch_LaunchBeforeCheck(r, failure, readFailure) ==
    /\ req[r].pc = "originGet"
    /\ failure \in S3Failures(req[r].ctx)
    /\ LET got == R2GetObject(origin, req[r].name, failure, readFailure)
           s3 == S3GetObject(origin, req[r].name, failure)
           q == [req[r] EXCEPT !.nOriginGet = @ + 1,
                               !.originHeld = IF failure # NilErr \/ readFailure # NilErr
                                               THEN NoData ELSE origin[req[r].name],
                               !.cause = IF s3.err # NilErr THEN s3.err ELSE readFailure,
                               !.fetch = IF got.err # NilErr THEN "failed" ELSE "ok"]
       IN /\ bg' = IF cacheEnabled
                   THEN [bg EXCEPT ![r] = [NoTask EXCEPT !.state = "launched",
                                                          !.key = q.name,
                                                          !.data = got.data]]
                   ELSE bg
          /\ req' = [req EXCEPT ![r] =
                IF got.err # NilErr
                THEN Return(q, OriginFailureResponse(CtxErr(q.ctx), got.err))
                ELSE [q EXCEPT !.data = got.data, !.pc = "respond"]]
    /\ metrics' = CountFetch(metrics,
                           R2GetObject(origin, req[r].name, failure, readFailure).err)
    /\ UNCHANGED <<startup, config, shaped, cacheEnabled, client,
                    cache, cacheBy, origin, originWas, originChanges, hc>>

\* The handler that launches the goroutine without looking at fileCache.
OriginFetch_NoCacheCheck(r, failure, readFailure) ==
    /\ req[r].pc = "originGet"
    /\ failure \in S3Failures(req[r].ctx)
    /\ LET got == R2GetObject(origin, req[r].name, failure, readFailure)
           s3 == S3GetObject(origin, req[r].name, failure)
           q == [req[r] EXCEPT !.nOriginGet = @ + 1,
                               !.originHeld = IF failure # NilErr \/ readFailure # NilErr
                                               THEN NoData ELSE origin[req[r].name],
                               !.cause = IF s3.err # NilErr THEN s3.err ELSE readFailure,
                               !.fetch = IF got.err # NilErr THEN "failed" ELSE "ok"]
       IN IF got.err # NilErr
          THEN /\ req' = [req EXCEPT ![r] =
                       Return(q, OriginFailureResponse(CtxErr(q.ctx), got.err))]
               /\ bg' = bg
          ELSE /\ req' = [req EXCEPT ![r] = [q EXCEPT !.data = got.data, !.pc = "respond"]]
               /\ bg' = [bg EXCEPT ![r] = [NoTask EXCEPT !.state = "launched",
                                                         !.key = q.name,
                                                         !.data = got.data]]
    /\ metrics' = CountFetch(metrics,
                           R2GetObject(origin, req[r].name, failure, readFailure).err)
    /\ UNCHANGED <<startup, config, shaped, cacheEnabled, client,
                    cache, cacheBy, origin, originWas, originChanges, hc>>

\* The handler that serves a fetched file and never stores it.
OriginFetch_NeverPopulates(r, failure, readFailure) ==
    /\ req[r].pc = "originGet"
    /\ failure \in S3Failures(req[r].ctx)
    /\ LET got == R2GetObject(origin, req[r].name, failure, readFailure)
           s3 == S3GetObject(origin, req[r].name, failure)
           q == [req[r] EXCEPT !.nOriginGet = @ + 1,
                               !.originHeld = IF failure # NilErr \/ readFailure # NilErr
                                               THEN NoData ELSE origin[req[r].name],
                               !.cause = IF s3.err # NilErr THEN s3.err ELSE readFailure,
                               !.fetch = IF got.err # NilErr THEN "failed" ELSE "ok"]
       IN IF got.err # NilErr
          THEN /\ req' = [req EXCEPT ![r] =
                       Return(q, OriginFailureResponse(CtxErr(q.ctx), got.err))]
               /\ bg' = bg
          ELSE /\ req' = [req EXCEPT ![r] = [q EXCEPT !.data = got.data, !.pc = "respond"]]
               /\ bg' = bg
    /\ metrics' = CountFetch(metrics,
                           R2GetObject(origin, req[r].name, failure, readFailure).err)
    /\ UNCHANGED <<startup, config, shaped, cacheEnabled, client,
                    cache, cacheBy, origin, originWas, originChanges, hc>>

\* The handler that answers a failed fetch and, with no return, goes on to
\* write the file response.
OriginFetch_FallsThrough(r, failure, readFailure) ==
    /\ req[r].pc = "originGet"
    /\ failure \in S3Failures(req[r].ctx)
    /\ LET got == R2GetObject(origin, req[r].name, failure, readFailure)
           s3 == S3GetObject(origin, req[r].name, failure)
           q == [req[r] EXCEPT !.nOriginGet = @ + 1,
                               !.originHeld = IF failure # NilErr \/ readFailure # NilErr
                                               THEN NoData ELSE origin[req[r].name],
                               !.cause = IF s3.err # NilErr THEN s3.err ELSE readFailure,
                               !.fetch = IF got.err # NilErr THEN "failed" ELSE "ok"]
       IN IF got.err # NilErr
          THEN /\ req' = [req EXCEPT ![r] =
                       [Return(q, OriginFailureResponse(CtxErr(q.ctx), got.err))
                           EXCEPT !.pc = "respond"]]
               /\ bg' = bg
          ELSE /\ req' = [req EXCEPT ![r] = [q EXCEPT !.data = got.data, !.pc = "respond"]]
               /\ bg' = IF cacheEnabled
                        THEN [bg EXCEPT ![r] = [NoTask EXCEPT !.state = "launched",
                                                               !.key = q.name,
                                                               !.data = got.data]]
                        ELSE bg
    /\ metrics' = CountFetch(metrics,
                           R2GetObject(origin, req[r].name, failure, readFailure).err)
    /\ UNCHANGED <<startup, config, shaped, cacheEnabled, client,
                    cache, cacheBy, origin, originWas, originChanges, hc>>

\* The handler that deletes an object whose body it could not read.
OriginFetch_DeletesUnreadable(r, failure, readFailure) ==
    /\ req[r].pc = "originGet"
    /\ failure \in S3Failures(req[r].ctx)
    /\ LET got == R2GetObject(origin, req[r].name, failure, readFailure)
           s3 == S3GetObject(origin, req[r].name, failure)
           q == [req[r] EXCEPT !.nOriginGet = @ + 1,
                               !.originHeld = IF failure # NilErr \/ readFailure # NilErr
                                               THEN NoData ELSE origin[req[r].name],
                               !.cause = IF s3.err # NilErr THEN s3.err ELSE readFailure,
                               !.fetch = IF got.err # NilErr THEN "failed" ELSE "ok"]
       IN IF got.err # NilErr
          THEN /\ req' = [req EXCEPT ![r] =
                       Return(q, OriginFailureResponse(CtxErr(q.ctx), got.err))]
               /\ bg' = bg
          ELSE /\ req' = [req EXCEPT ![r] = [q EXCEPT !.data = got.data, !.pc = "respond"]]
               /\ bg' = IF cacheEnabled
                        THEN [bg EXCEPT ![r] = [NoTask EXCEPT !.state = "launched",
                                                               !.key = q.name,
                                                               !.data = got.data]]
                        ELSE bg
    /\ origin' = IF failure = NilErr /\ readFailure # NilErr
                 THEN R2DeleteObject(origin, req[r].name, NilErr).origin
                 ELSE origin
    /\ metrics' = CountFetch(metrics,
                           R2GetObject(origin, req[r].name, failure, readFailure).err)
    /\ UNCHANGED <<startup, config, shaped, cacheEnabled, client,
                    cache, cacheBy, originWas, originChanges, hc>>

\* fileStorage.GetObject returns: a failure is classified and answered; a
\* success launches the population goroutine when a cache is configured, and
\* the handler goes on to write the response.
OriginFetch(r, failure, readFailure) ==
    /\ req[r].pc = "originGet"
    /\ failure \in S3Failures(req[r].ctx)
    /\ LET got == R2GetObject(origin, req[r].name, failure, readFailure)
           s3 == S3GetObject(origin, req[r].name, failure)
           q == [req[r] EXCEPT !.nOriginGet = @ + 1,
                               !.originHeld = IF failure # NilErr \/ readFailure # NilErr
                                               THEN NoData ELSE origin[req[r].name],
                               !.cause = IF s3.err # NilErr THEN s3.err ELSE readFailure,
                               !.fetch = IF got.err # NilErr THEN "failed" ELSE "ok"]
       IN IF got.err # NilErr
          THEN /\ req' = [req EXCEPT ![r] =
                       Return(q, OriginFailureResponse(CtxErr(q.ctx), got.err))]
               /\ bg' = bg
          ELSE /\ req' = [req EXCEPT ![r] = [q EXCEPT !.data = got.data, !.pc = "respond"]]
               /\ bg' = IF cacheEnabled
                        THEN [bg EXCEPT ![r] = [NoTask EXCEPT !.state = "launched",
                                                               !.key = q.name,
                                                               !.data = got.data]]
                        ELSE bg
    /\ metrics' = CountFetch(metrics,
                           R2GetObject(origin, req[r].name, failure, readFailure).err)
    /\ UNCHANGED <<startup, config, shaped, cacheEnabled, client,
                    cache, cacheBy, origin, originWas, originChanges, hc>>

\* The handler that waits for its goroutine before it writes the response.
Respond_AwaitsPopulation(r) ==
    /\ req[r].pc = "respond"
    /\ bg[r].state # "launched"
    /\ req' = [req EXCEPT ![r] = Return(@, writeFileResponse(@.name, @.data))]
    /\ UNCHANGED <<startup, config, shaped, cacheEnabled, client, metrics,
                    cache, cacheBy, origin, originWas, originChanges, bg, hc>>

\* writeFileResponse after a successful fetch, and the handler returns.
Respond(r) ==
    /\ req[r].pc = "respond"
    /\ req' = [req EXCEPT ![r] = Return(@, writeFileResponse(@.name, @.data))]
    /\ UNCHANGED <<startup, config, shaped, cacheEnabled, client, metrics,
                    cache, cacheBy, origin, originWas, originChanges, bg, hc>>

\* The goroutine's context derived from the handler's ctx.
TaskCtx_FromRequest(q) == q.ctx

\* bgCtx of the goroutine launched by the request with record q:
\* context.WithTimeout(context.Background(), ...) takes nothing from the
\* request, so no event of q's context ends it (the passing of its own
\* timeout is one of the failures of Set).
TaskCtx(q) == "live"

\* The goroutine that answers the client with 500 when Set fails.
Populate_AnswersFailure(r, fail) ==
    /\ bg[r].state = "launched"
    /\ LET set == RedisCacheSet(cache, bg[r].key, bg[r].data,
                                fail \/ TaskCtx(req[r]) # "live")
       IN /\ cache' = set.cache
          /\ cacheBy' = IF set.err = NilErr THEN [cacheBy EXCEPT ![bg[r].key] = r]
                        ELSE cacheBy
          /\ bg' = [bg EXCEPT ![r].state = IF set.err = NilErr THEN "cached" ELSE "failed",
                              ![r].redisFailed = fail,
                              ![r].reqCtx = req[r].ctx,
                              ![r].nCacheSet = @ + 1]
          /\ req' = IF set.err = NilErr THEN req
                    ELSE [req EXCEPT ![r].nResponses = @ + 1,
                                     ![r].resp = writeJSON(StatusInternalServerError,
                                         Response(FALSE, "Failed to cache file", NoFields))]
    /\ UNCHANGED <<startup, config, shaped, cacheEnabled, client, metrics,
                    origin, originWas, originChanges, hc>>

\* The goroutine that lives in the request's scope: it is gone, without a
\* word, once the request's context is done.
Populate_DiesWithRequest(r, fail) ==
    /\ bg[r].state = "launched"
    /\ req[r].ctx = "live"
    /\ LET set == RedisCacheSet(cache, bg[r].key, bg[r].data,
                                fail \/ TaskCtx(req[r]) # "live")
       IN /\ cache' = set.cache
          /\ cacheBy' = IF set.err = NilErr THEN [cacheBy EXCEPT ![bg[r].key] = r]
                        ELSE cacheBy
          /\ bg' = [bg EXCEPT ![r].state = IF set.err = NilErr THEN "cached" ELSE "failed",
                              ![r].redisFailed = fail,
                              ![r].reqCtx = req[r].ctx,
                              ![r].nCacheSet = @ + 1]
    /\ UNCHANGED <<startup, config, shaped, cacheEnabled, client, metrics,
                    origin, originWas, originChanges, req, hc>>

\* The goroutine that calls Set again after a failure.
Populate_RetriesOnFailure(r, fail) ==
    /\ bg[r].state = "launched"
    /\ LET set == RedisCacheSet(cache, bg[r].key, bg[r].data,
                                fail \/ TaskCtx(req[r]) # "live")
       IN /\ cache' = set.cache
          /\ cacheBy' = IF set.err = NilErr THEN [cacheBy EXCEPT ![bg[r].key] = r]
                        ELSE cacheBy
          /\ bg' = [bg EXCEPT ![r].state = IF set.err = NilErr THEN "cached" ELSE "launched",
                              ![r].redisFailed = fail,
                              ![r].reqCtx = req[r].ctx,
                              ![r].nCacheSet = @ + 1]
    /\ UNCHANGED <<startup, config, shaped, cacheEnabled, client, metrics,
                    origin, originWas, originChanges, req, hc>>

\* The goroutine that stores what the bucket holds when the Set is made.
Populate_StoresCurrent(r, fail) ==
    /\ bg[r].state = "launched"
    /\ LET set == RedisCacheSet(cache, bg[r].key, origin[bg[r].key],
                                fail \/ TaskCtx(req[r]) # "live")
       IN /\ cache' = set.cache
          /\ cacheBy' = IF set.err = NilErr THEN [cacheBy EXCEPT ![bg[r].key] = r]
                        ELSE cacheBy
          /\ bg' = [bg EXCEPT ![r].state = IF set.err = NilErr THEN "cached" ELSE "failed",
                              ![r].redisFailed = fail,
                              ![r].reqCtx = req[r].ctx,
                              ![r].nCacheSet = @ + 1]
    /\ UNCHANGED <<startup, config, shaped, cacheEnabled, client, metrics,
                    origin, originWas, originChanges, req, hc>>

\* The goroutine's fileCache.Set returns, under its own context: the entry is
\* written, or the failure is logged.  A Set under a context that is done
\* fails.
Populate(r, fail) ==
    /\ bg[r].state = "launched"
    /\ LET set == RedisCacheSet(cache, bg[r].key, bg[r].data,
                                fail \/ TaskCtx(req[r]) # "live")
       IN /\ cache' = set.cache
          /\ cacheBy' = IF set.err = NilErr THEN [cacheBy EXCEPT ![bg[r].key] = r]
                        ELSE cacheBy
          /\ bg' = [bg EXCEPT ![r].state = IF set.err = NilErr THEN "cached" ELSE "failed",
                              ![r].redisFailed = fail,
                              ![r].reqCtx = req[r].ctx,
                              ![r].nCacheSet = @ + 1]
    /\ UNCHANGED <<startup, config, shaped, cacheEnabled, client, metrics,
                    origin, originWas, originChanges, req, hc>>

\* ------------------------------------------------------------- environment

\* The request timeout passes while the handler waits for a backend (after the
\* fetch has succeeded the handler no longer reads ctx).
DeadlineExpires(r) ==
    /\ req[r].pc \in {"cacheGet", "originGet"}
    /\ req[r].ctx = "live"
    /\ req' = [req EXCEPT ![r].ctx = "DeadlineExceeded"]
    /\ UNCHANGED <<startup, config, shaped, cacheEnabled, client, metrics,
                    cache, cacheBy, origin, originWas, originChanges, bg, hc>>

\* The client goes away: r.Context() is cancelled, and ctx with it.
ClientDisconnects(r) ==
    /\ req[r].pc \in {"cacheGet", "originGet"}
    /\ req[r].ctx = "live"
    /\ req' = [req EXCEPT ![r].ctx = "Canceled"]
    /\ UNCHANGED <<startup, config, shaped, cacheEnabled, client, metrics,
                    cache, cacheBy, origin, originWas, originChanges, bg, hc>>

\* Redis drops an entry whose TTL has passed.
CacheExpires(k) ==
    /\ cache[k] # NoData
    /\ cache' = [cache EXCEPT ![k] = NoData]
    /\ cacheBy' = [cacheBy EXCEPT ![k] = 0]
    /\ UNCHANGED <<startup, config, shaped, cacheEnabled, client, metrics,
                    origin, originWas, originChanges, req, bg, hc>>

\* Somebody else writes or deletes an object of the bucket.
OriginChanges(k, v) ==
    /\ originChanges < MaxOriginChanges
    /\ origin[k] # v
    /\ origin' = [origin EXCEPT ![k] = v]
    /\ originWas' = [originWas EXCEPT ![k] = @ \cup {v}]
    /\ originChanges' = originChanges + 1
    /\ UNCHANGED <<startup, config, shaped, cacheEnabled, client, metrics,
                    cache, cacheBy, req, bg, hc>>

\* ------------------------------------------------------------ healthHandler

\* The failures a probe can report under a context in state c.
ProbeFailures(c) ==
    {NilErr, TxtRefused}
        \cup (IF c = "DeadlineExceeded" THEN {TxtDeadline} ELSE {})
        \cup (IF c = "Canceled" THEN {TxtCanceled} ELSE {})

\* The text of ctx.Err() for a context that is done.
CtxErrText(c) == IF c = "DeadlineExceeded" THEN TxtDeadline ELSE TxtCanceled

\* fileStorage.HealthCheck(ctx): a call made under a context that is already
\* done returns the context's error without an answer of the bucket; any
\* other call returns what the bucket has to say (failure).
HealthCheckResult(started, failure) ==
    IF started \in {"DeadlineExceeded", "Canceled"} THEN CtxErrText(started)
    ELSE failure

\* What fileCache.Ping and fileStorage.HealthCheck leave in the stores: they
\* are reachability probes, which read only.
PingEffect(c) == c
HealthCheckEffect(o) == o

\* The health map after the Redis check: fileCache.Ping's result, or
\* "disabled" when there is no cache.
RedisField(enabled, err) ==
    IF ~enabled THEN <<"disabled">>
    ELSE IF err # NilErr THEN <<"unhealthy: ">> \o err
    ELSE <<"healthy">>

\* The answer of a health check in which a failed Redis check counts too.
HealthResponse_CacheCounts(health, err) ==
    IF err # NilErr \/ health.redis \notin {<<"healthy">>, <<"disabled">>}
    THEN writeJSON(StatusServiceUnavailable,
                   Response(FALSE, "Service is unhealthy",
                            [health EXCEPT !.status = <<"unhealthy">>,
                                           !.r2 = IF err # NilErr
                                                  THEN <<"unhealthy: ">> \o err
                                                  ELSE <<"healthy">>]))
    ELSE writeJSON(StatusOK,
                   Response(TRUE, "Service is healthy",
                            [health EXCEPT !.r2 = <<"healthy">>]))

\* The handler's answer once fileStorage.HealthCheck has returned err.
HealthResponse(health, err) ==
    IF err # NilErr
    THEN writeJSON(StatusServiceUnavailable,
                   Response(FALSE, "Service is unhealthy",
                            [health EXCEPT !.status = <<"unhealthy">>,
                                           !.r2 = <<"unhealthy: ">> \o err]))
    ELSE writeJSON(StatusOK,
                   Response(TRUE, "Service is healthy",
                            [health EXCEPT !.r2 = <<"healthy">>]))

\* The handler that checks Redis whether or not a cache is configured.
HealthArrive_AlwaysPings ==
    /\ hc.pc \in {"idle", "done"}
    /\ hc.checks < MaxHealthChecks
    /\ hc' = [NoCheck EXCEPT
                 !.checks = hc.checks + 1, !.ctx = "live", !.caller = "live",
                 !.last = hc.resp,
                 !.pc = "ping",
                 !.health = [NoFields EXCEPT !.status = <<"healthy">>]]
    /\ UNCHANGED <<startup, config, shaped, cacheEnabled, client, metrics,
                    cache, cacheBy, origin, originWas, originChanges, req, bg>>

\* A health check arrives: a context with the check's timeout, the map with
\* status "healthy", and the Redis check is skipped when there is no cache.
HealthArrive ==
    /\ hc.pc \in {"idle", "done"}
    /\ hc.checks < MaxHealthChecks
    /\ hc' = [NoCheck EXCEPT
                 !.checks = hc.checks + 1, !.ctx = "live", !.caller = "live",
                 !.last = hc.resp,
                 !.started = IF cacheEnabled THEN "none" ELSE "live",
                 !.health = [NoFields EXCEPT
                               !.status = <<"healthy">>,
                               !.redis = IF cacheEnabled THEN <<>>
                                         ELSE RedisField(FALSE, NilErr)],
                 !.pc = IF cacheEnabled THEN "ping" ELSE "probe"]
    /\ UNCHANGED <<startup, config, shaped, cacheEnabled, client, metrics,
                    cache, cacheBy, origin, originWas, originChanges, req, bg>>

\* The handler that answers at once when the Redis check fails, without
\* asking R2.
HealthPing_StopsOnFailure(err) ==
    /\ hc.pc = "ping"
    /\ err \in ProbeFailures(hc.ctx)
    /\ hc' = IF err = NilErr
             THEN [hc EXCEPT !.pingErr = err, !.nPing = @ + 1,
                             !.health.redis = RedisField(TRUE, err),
                             !.started = hc.ctx,
                             !.pc = "probe"]
             ELSE LET w == writeJSON(StatusServiceUnavailable,
                               Response(FALSE, "Service is unhealthy",
                                        [hc.health EXCEPT
                                            !.status = <<"unhealthy">>,
                                            !.redis = RedisField(TRUE, err)]))
                  IN [hc EXCEPT !.pingErr = err, !.nPing = @ + 1,
                                !.health = w.json.data, !.resp = w,
                                !.pc = "done", !.ctx = Cancel(@)]
    /\ UNCHANGED <<startup, config, shaped, cacheEnabled, client, metrics,
                    cache, cacheBy, origin, originWas, originChanges, req, bg>>

\* fileCache.Ping returns, and fileStorage.HealthCheck is called with the
\* same ctx.
HealthPing(err) ==
    /\ hc.pc = "ping"
    /\ err \in ProbeFailures(hc.ctx)
    /\ hc' = [hc EXCEPT !.pingErr = err, !.nPing = @ + 1,
                        !.health.redis = RedisField(TRUE, err),
                        !.started = hc.ctx,
                        !.pc = "probe"]
    /\ cache' = PingEffect(cache)
    /\ UNCHANGED <<startup, config, shaped, cacheEnabled, client, metrics,
                    cacheBy, origin, originWas, originChanges, req, bg>>

\* The handler that keeps its last verdict: once a check has answered
\* unhealthy, the checks after it give that answer again.
HealthProbe_Sticky(failure) ==
    /\ hc.pc = "probe"
    /\ failure \in ProbeFailures(hc.ctx)
    /\ LET err == HealthCheckResult(hc.started, failure)
           w == IF hc.last.status = StatusServiceUnavailable THEN hc.last
                ELSE HealthResponse(hc.health, err)
       IN hc' = [hc EXCEPT !.probeErr = err, !.nProbe = @ + 1,
                           !.originErr = failure,
                           !.health = w.json.data, !.resp = w,
                           !.pc = "done", !.ctx = Cancel(@)]
    /\ origin' = HealthCheckEffect(origin)
    /\ UNCHANGED <<startup, config, shaped, cacheEnabled, client, metrics,
                    cache, cacheBy, originWas, originChanges, req, bg>>

\* fileStorage.HealthCheck returns, and the handler answers.
HealthProbe(failure) ==
    /\ hc.pc = "probe"
    /\ failure \in ProbeFailures(hc.ctx)
    /\ LET err == HealthCheckResult(hc.started, failure)
           w == HealthResponse(hc.health, err)
       IN hc' = [hc EXCEPT !.probeErr = err, !.nProbe = @ + 1,
                           !.originErr = failure,
                           !.health = w.json.data, !.resp = w,
                           !.pc = "done", !.ctx = Cancel(@)]
    /\ origin' = HealthCheckEffect(origin)
    /\ UNCHANGED <<startup, config, shaped, cacheEnabled, client, metrics,
                    cache, cacheBy, originWas, originChanges, req, bg>>

\* A context made without a parent: what happens to r.Context() does not
\* reach it.
Derive_Detached(c, event) == c

\* ctx of context.WithTimeout(r.Context(), ...) when r.Context() ends with
\* event: a context that is live ends with its parent, in the parent's way.
Derive(c, event) == IF c = "live" THEN event ELSE c

\* The check's timeout passes while the handler waits for a probe.
HealthDeadlineExpires ==
    /\ hc.pc \in {"ping", "probe"}
    /\ hc.ctx = "live"
    /\ hc' = [hc EXCEPT !.ctx = "DeadlineExceeded", !.timedOut = TRUE]
    /\ UNCHANGED <<startup, config, shaped, cacheEnabled, client, metrics,
                    cache, cacheBy, origin, originWas, originChanges, req, bg>>

\* The caller of the health check goes away: r.Context() is cancelled.
HealthCallerCancels ==
    /\ hc.pc \in {"ping", "probe"}
    /\ hc.caller = "live"
    /\ hc' = [hc EXCEPT !.caller = "Canceled", !.ctx = Derive(@, "Canceled")]
    /\ UNCHANGED <<startup, config, shaped, cacheEnabled, client, metrics,
                    cache, cacheBy, origin, originWas, originChanges, req, bg>>

\* A deadline that r.Context() carries passes.
HealthCallerDeadline ==
    /\ hc.pc \in {"ping", "probe"}
    /\ hc.caller = "live"
    /\ hc' = [hc EXCEPT !.caller = "DeadlineExceeded",
                        !.ctx = Derive(@, "DeadlineExceeded")]
    /\ UNCHANGED <<startup, config, shaped, cacheEnabled, client, metrics,
                    cache, cacheBy, origin, originWas, originChanges, req, bg>>

Next ==
    \/ \E r \in Reqs, name \in Names : Arrive(r, name)
    \/ \E r \in Reqs, fail \in BOOLEAN : CacheLookup(r, fail)
    \/ \E r \in Reqs : \E failure \in S3Failures(req[r].ctx), readFailure \in ReadFailures :
          OriginFetch(r, failure, readFailure)
    \/ \E r \in Reqs : Respond(r)
    \/ \E r \in Reqs, fail \in BOOLEAN : Populate(r, fail)
    \/ \E r \in Reqs : DeadlineExpires(r)
    \/ \E r \in Reqs : ClientDisconnects(r)
    \/ \E k \in Keys : CacheExpires(k)

\* The service with a bucket nobody else writes.
Spec == Init /\ [][Next]_vars

\* A step of request r's handler: the backend call it waits for returns (by
\* the call's deadline at the latest), or it writes its response.
HandlerStep(r) ==
    \/ \E fail \in BOOLEAN : CacheLookup(r, fail)
    \/ \E failure \in S3Failures(req[r].ctx), readFailure \in ReadFailures :
          OriginFetch(r, failure, readFailure)
    \/ Respond(r)

\* The step of request r's goroutine: its Set returns, by the end of bgCtx's
\* timeout at the latest.
TaskStep(r) == \E fail \in BOOLEAN : Populate(r, fail)

\* The starts that differ in what decides the path of a request: a cache or
\* none (Redis answered the Ping at startup or refused), and the objects
\* there or not; the cache starts empty and is filled by the populations.
InitLive ==
    /\ Init
    /\ startup.mode = "enabled"
    /\ startup.pingErr \in {NilErr, TxtRefused}
    /\ \A k \in Keys, l \in Keys : cache[k] = NoData /\ origin[k] = origin[l]

\* The service whose handlers and goroutines are scheduled and whose backend
\* calls return by their deadlines: while some handler or goroutine has a
\* step to take, one of them takes its step.
SpecLive ==
    /\ InitLive
    /\ [][Next]_vars
    /\ WF_vars(\E r \in Reqs : HandlerStep(r) \/ TaskStep(r))

NextChanging ==
    \/ Next
    \/ \E k \in Keys, v \in Bytes \cup {NoData} : OriginChanges(k, v)

\* The service with a bucket that others write.
SpecChanging == Init /\ [][NextChanging]_vars

NextHealth ==
    \/ HealthArrive
    \/ \E err \in ProbeFailures(hc.ctx) : HealthPing(err)
    \/ \E failure \in ProbeFailures(hc.ctx) : HealthProbe(failure)
    \/ HealthDeadlineExpires
    \/ HealthCallerCancels
    \/ HealthCallerDeadline
    \/ \E k \in Keys : CacheExpires(k)

\* The health checks of the service.
SpecHealth == Init /\ [][NextHealth]_vars

NextServing ==
    \/ hc.pc = "idle" /\ Next
    \/ (\A r \in Reqs : req[r].pc = "idle") /\ NextHealth

\* The service answering file requests, or answering health checks: the two
\* handlers share nothing but the backends, which a health check leaves as
\* they are.
SpecServing == Init /\ [][NextServing]_vars

\* ------------------------------------------------------- writeFileResponse

\* Names handed to writeFileResponse: those of the tests, a name without an
\* extension, one in upper case, one with a dot in a directory only, one with
\* two extensions and one that ends with a dot.
NameDocumentPdf == <<"d", "o", "c", "u", "m", "e", "n", "t", ".", "p", "d", "f">>
NamePageHtml == <<"p", "a", "g", "e", ".", "h", "t", "m", "l">>
NameUnknownExt == <<"f", "i", "l", "e", ".", "u", "n", "k", "n", "o", "w", "n", "e", "x", "t", "1", "2", "3">>
NameNoExt == <<"R", "E", "A", "D", "M", "E">>
NameUpperPdf == <<"R", "E", "P", "O", "R", "T", ".", "P", "D", "F">>
NameDotInDir == <<"v", "1", ".", "p", "d", "f", "/", "d", "a", "t", "a">>
NameTwoExts == <<"i", "n", "d", "e", "x", ".", "h", "t", "m", "l", ".", "p", "n", "g">>
NameBareDot == <<"n", "o", "t", "e", "s", ".">>

ShapedNames ==
    {NameDocumentPdf, NamePageHtml, NameUnknownExt, NameNoExt, NameUpperPdf,
     NameDotInDir, NameTwoExts, NameBareDot, NameTxt}

\* writeFileResponse(w, filename, data) on its own.
Shape(name, data) ==
    /\ shaped' = [name |-> name, data |-> data, resp |-> writeFileResponse(name, data)]
    /\ UNCHANGED <<startup, config, cacheEnabled, client, metrics,
                    cache, cacheBy, origin, originWas, originChanges, req, bg, hc>>

NextShaping == \E name \in ShapedNames, data \in Bytes : Shape(name, data)

\* The shaping of file responses, for every name and content.
SpecShaping == Init /\ [][NextShaping]_vars

\* ------------------------------------------------------------- config.Load

\* cfg := config.Load() of main, under one environment.
LoadConfig(env) ==
    /\ ~config.loaded
    /\ config' = [loaded |-> TRUE, env |-> env, cfg |-> Load(env)]
    /\ UNCHANGED <<startup, shaped, cacheEnabled, client, metrics,
                    cache, cacheBy, origin, originWas, originChanges, req, bg, hc>>

NextConfig ==
    \E port \in PortTexts, addr \in AddrTexts, db \in DBTexts, ttl \in TTLTexts,
       secret \in SecretTexts :
        LoadConfig(Env(port, addr, db, ttl, secret))

\* The loading of the configuration, for every environment.
SpecConfig == Init /\ [][NextConfig]_vars

\* ----------------------------------------------------------- client methods

\* A value stored with no bytes in it, which is not a missing key.
EmptyBytes == ""

\* The stores the client methods are tried on, and the failures of a
\* HeadObject call.
CacheContents == [Keys -> Bytes \cup {EmptyBytes, NoData}]
OriginContents == [Keys -> Bytes \cup {NoData}]
HeadFailures == {NilErr, TxtRefused, TxtDeadline, TxtCanceled}

\* fileCache.Get(ctx, key) on its own.
CallGet(c, key, fail) ==
    /\ client' = [fn |-> "Get", c |-> c, key |-> key, fail |-> fail,
                  out |-> RedisCacheGet(c, key, fail)]
    /\ UNCHANGED <<startup, config, shaped, cacheEnabled, metrics, cache, cacheBy,
                    origin, originWas, originChanges, req, bg, hc>>

\* fileStorage.ObjectExists(ctx, key) on its own.
CallObjectExists(o, key, failure) ==
    /\ client' = [fn |-> "ObjectExists", o |-> o, key |-> key, failure |-> failure,
                  out |-> R2ObjectExists(o, key, failure)]
    /\ UNCHANGED <<startup, config, shaped, cacheEnabled, metrics, cache, cacheBy,
                    origin, originWas, originChanges, req, bg, hc>>

NextClient ==
    \/ \E c \in CacheContents, key \in Keys, fail \in BOOLEAN : CallGet(c, key, fail)
    \/ \E o \in OriginContents, key \in Keys, failure \in HeadFailures :
          CallObjectExists(o, key, failure)

\* The methods of the two clients, for every store content and failure.
SpecClient == Init /\ [][NextClient]_vars

\* ------------------------------------------------------------------ claims

Done(r) == req[r].pc = "done"

\* The answer getFileHandler gives to a served file.
Served(r, bytes) ==
    /\ req[r].resp.kind = "file"
    /\ req[r].resp.status = StatusOK
    /\ req[r].resp.body = bytes

\* The JSON answer with the given status and message, and success false.
Refused(r, status, message) ==
    /\ req[r].resp.kind = "json"
    /\ req[r].resp.status = status
    /\ req[r].resp.json.success = FALSE
    /\ req[r].resp.json.message = message

\* Nothing of request r reaches the cache: no goroutine, no Set, no entry.
WritesNothing(r) ==
    /\ bg[r] = NoTask
    /\ \A k \in Keys : cacheBy[k] # r

\* C1: a request whose name Redis holds bytes for (the lookup was answered
\* from them) has ended with 200 and exactly those bytes as the body, after
\* one cache Get and no R2 Get, whatever the bucket holds.
C1_CacheHitServedFromCache ==
    \A r \in Reqs :
        req[r].held # NoData =>
            /\ req[r].name # Empty
            /\ Done(r)
            /\ Served(r, req[r].held)
            /\ req[r].nCacheGet = 1
            /\ req[r].nOriginGet = 0

\* C1, witness: a request served from the cache while the bucket has no such
\* object.
C1_Witness ==
    \E r \in Reqs :
        /\ req[r].held # NoData
        /\ Done(r)
        /\ origin[req[r].name] = NoData

\* C2: a request whose name Redis does not hold (the lookup was a miss) and
\* the bucket does (the fetch was answered from it) is past one cache Get and
\* one R2 Get, and ends with 200 and exactly the bucket's bytes as the body.
C2_MissServedFromOrigin ==
    \A r \in Reqs :
        (req[r].lookup = "miss" /\ req[r].originHeld # NoData) =>
            /\ req[r].name # Empty
            /\ req[r].nCacheGet = 1
            /\ req[r].nOriginGet = 1
            /\ req[r].pc \in {"respond", "done"}
            /\ Done(r) => Served(r, req[r].originHeld)

\* C2, witness: such a request has been answered.
C2_Witness ==
    \E r \in Reqs :
        /\ req[r].lookup = "miss"
        /\ req[r].originHeld # NoData
        /\ Done(r)
        /\ Served(r, origin[req[r].name])

\* C3: round trip.  The entry a request's population wrote is, under the
\* requested key, the bytes that request fetched and answers with; a request
\* whose lookup was answered from that entry is served those same bytes from
\* the cache and never asks R2.
C3_RoundTrip ==
    /\ \A r \in Reqs, k \in Keys :
          cacheBy[k] = r =>
              /\ bg[r].state = "cached"
              /\ req[r].lookup \in {"miss", "error"}
              /\ k = req[r].name
              /\ cache[k] = req[r].data
              /\ Done(r) => Served(r, cache[k])
    /\ \A r \in Reqs, r2 \in Reqs :
          req[r2].heldBy = r =>
              /\ r2 # r
              /\ req[r2].name = req[r].name
              /\ req[r2].lookup = "hit"
              /\ req[r2].nOriginGet = 0
              /\ Done(r2)
              /\ Served(r2, req[r].data)
              /\ Done(r) => req[r2].resp.body = req[r].resp.body

\* C3, witness: a miss answered from the bucket, its population done, and a
\* later request for the same name answered from the entry it wrote.
C3_Witness ==
    \E r \in Reqs, r2 \in Reqs :
        /\ req[r2].heldBy = r
        /\ Done(r) /\ Done(r2)
        /\ req[r].lookup = "miss"
        /\ req[r].originHeld # NoData
        /\ req[r2].resp.body = req[r].originHeld

C5_PopulationFailureNotSurfaced ==
    \A r \in Reqs :
        bg[r].state = "failed" =>
            /\ req[r].pc \in {"respond", "done"}
            /\ req[r].fetch = "ok"
            /\ req[r].originHeld = bg[r].data
            /\ Done(r) => /\ Served(r, req[r].originHeld)
                          /\ req[r].nResponses = 1

\* C5, witness: the population failed and the client has its 200.
C5_Witness ==
    \E r \in Reqs :
        /\ bg[r].state = "failed"
        /\ Done(r)
        /\ Served(r, origin[req[r].name])

\* C6 as stated: a request that was not served from the cache and whose name
\* the bucket answered with no-such-object ends with 404, success false and
\* "File not found", and writes nothing to the cache.
C6_Original ==
    \A r \in Reqs :
        (Done(r) /\ req[r].lookup # "hit" /\ req[r].cause = TxtNoSuchKey) =>
            /\ Refused(r, StatusNotFound, "File not found")
            /\ WritesNothing(r)

\* C6, amended: such a request ends with 404, success false and "File not
\* found", unless its context's deadline has been exceeded, and then with 504
\* and "Request timeout"; either way it writes nothing to the cache.
C6_AbsentEverywhereNotFound ==
    \A r \in Reqs :
        (Done(r) /\ req[r].lookup # "hit" /\ req[r].cause = TxtNoSuchKey) =>
            /\ IF req[r].ctx = "DeadlineExceeded"
               THEN Refused(r, StatusGatewayTimeout, "Request timeout")
               ELSE Refused(r, StatusNotFound, "File not found")
            /\ WritesNothing(r)

\* C6, witness: a miss, no such object in the bucket, and the 404.
C6_Witness ==
    \E r \in Reqs :
        /\ Done(r)
        /\ req[r].lookup = "miss"
        /\ req[r].cause = TxtNoSuchKey
        /\ origin[req[r].name] = NoData
        /\ Refused(r, StatusNotFound, "File not found")

\* C7 as stated: a failed R2 fetch that is neither the store's no-such-object
\* signal nor a deadline expiry ends with 500 and success false, and two
\* failed fetches of the same kind get the same status whatever the names.
C7_OtherFailureIs500 ==
    /\ \A r \in Reqs :
          ( /\ Done(r) /\ req[r].fetch = "failed"
            /\ req[r].cause # TxtNoSuchKey
            /\ req[r].ctx # "DeadlineExceeded" )
          => /\ req[r].resp.status = StatusInternalServerError
             /\ req[r].resp.json.success = FALSE
    /\ \A r \in Reqs, r2 \in Reqs :
          ( /\ Done(r) /\ Done(r2)
            /\ req[r].fetch = "failed" /\ req[r2].fetch = "failed"
            /\ req[r].cause = req[r2].cause
            /\ req[r].ctx = req[r2].ctx )
          => req[r].resp.status = req[r2].resp.status

\* C8: a request whose R2 fetch failed ends with 504 exactly when its
\* context's deadline has been exceeded: also when the store answered
\* no-such-object, and never for a context that was cancelled or is live,
\* whatever the error says.
C8_TimeoutIffDeadline ==
    \A r \in Reqs :
        (Done(r) /\ req[r].fetch = "failed") =>
            /\ req[r].resp.status = StatusGatewayTimeout
                   <=> req[r].ctx = "DeadlineExceeded"
            /\ req[r].resp.status = StatusGatewayTimeout
                   => Refused(r, StatusGatewayTimeout, "Request timeout")

\* C8, witness: the store answered no-such-object after the deadline, and
\* the request ended with 504.
C8_Witness ==
    \E r \in Reqs :
        /\ Done(r)
        /\ req[r].cause = TxtNoSuchKey
        /\ req[r].ctx = "DeadlineExceeded"
        /\ req[r].resp.status = StatusGatewayTimeout

\* C9: a request with the empty name has ended with 400, success false and
\* "filename is required", and no cache Get, R2 Get or cache Set was issued
\* for it.
C9_EmptyNameRejected ==
    \A r \in Reqs :
        (req[r].pc # "idle" /\ req[r].name = Empty) =>
            /\ Done(r)
            /\ Refused(r, StatusBadRequest, "filename is required")
            /\ req[r].nCacheGet = 0
            /\ req[r].nOriginGet = 0
            /\ req[r].lookup = "none" /\ req[r].fetch = "none"
            /\ WritesNothing(r)

\* C9, witness: a rejected request, with a cache configured.
C9_Witness ==
    \E r \in Reqs :
        /\ Done(r)
        /\ req[r].name = Empty
        /\ cacheEnabled
        /\ req[r].resp.status = StatusBadRequest

\* C10: a finished health check reports 503, success false and status
\* "unhealthy" when the R2 probe failed, and 200, success true and status
\* "healthy" when it did not, whatever the Redis check gave.
C10_UnhealthyIffOriginFails ==
    hc.pc = "done" =>
        IF hc.probeErr # NilErr
        THEN /\ hc.resp.status = StatusServiceUnavailable
             /\ hc.resp.json.success = FALSE
             /\ hc.resp.json.data.status = <<"unhealthy">>
        ELSE /\ hc.resp.status = StatusOK
             /\ hc.resp.json.success = TRUE
             /\ hc.resp.json.data.status = <<"healthy">>

\* C10, witness: Redis failed its check, R2 did not, and the check reports
\* healthy.
C10_Witness ==
    /\ hc.pc = "done"
    /\ cacheEnabled
    /\ hc.pingErr # NilErr
    /\ hc.probeErr = NilErr
    /\ hc.resp.status = StatusOK

\* C11 as stated: a finished health check whose Redis probe failed, by an
\* error or by the check's timeout, reports Redis as unhealthy with the
\* probe's error, and whenever the bucket is reachable it answers 200 with
\* success true and status "healthy".
C11_CacheFailureNeverFlips ==
    (hc.pc = "done" /\ cacheEnabled /\ hc.pingErr # NilErr) =>
        /\ hc.resp.json.data.redis = <<"unhealthy: ">> \o hc.pingErr
        /\ hc.originErr = NilErr =>
              /\ hc.resp.status = StatusOK
              /\ hc.resp.json.success = TRUE
              /\ hc.resp.json.data.status = <<"healthy">>

\* C12: with no cache configured a health check calls no Ping, reports Redis
\* as "disabled", and answers 200, success true and status "healthy" exactly
\* when the bucket answered its one probe, and 503, success false and status
\* "unhealthy" otherwise.
C12_NoCacheHealth ==
    (~cacheEnabled /\ hc.pc # "idle") =>
        /\ hc.pc \in {"probe", "done"}
        /\ hc.nPing = 0
        /\ hc.health.redis = <<"disabled">>
        /\ hc.pc = "done" =>
              /\ hc.nProbe = 1
              /\ hc.resp.json.data.redis = <<"disabled">>
              /\ IF hc.originErr = NilErr
                 THEN /\ hc.resp.status = StatusOK
                      /\ hc.resp.json.success = TRUE
                      /\ hc.resp.json.data.status = <<"healthy">>
                 ELSE /\ hc.resp.status = StatusServiceUnavailable
                      /\ hc.resp.json.success = FALSE
                      /\ hc.resp.json.data.status = <<"unhealthy">>

\* C12, witness: no cache, the bucket unreachable, and the check reports 503
\* with Redis "disabled".
C12_Witness ==
    /\ ~cacheEnabled
    /\ hc.pc = "done"
    /\ hc.originErr = TxtRefused
    /\ hc.resp.status = StatusServiceUnavailable
    /\ hc.resp.json.data.redis = <<"disabled">>

\* C13: with no cache configured a request for a name goes straight to R2:
\* no cache Get, no goroutine and no cache Set, nothing in the cache, one R2
\* Get, and when the bucket answered with the object the request ends with
\* 200 and the bucket's bytes.
C13_NoCacheDirect ==
    \A r \in Reqs :
        (~cacheEnabled /\ req[r].pc # "idle" /\ req[r].name # Empty) =>
            /\ req[r].pc \in {"originGet", "respond", "done"}
            /\ req[r].nCacheGet = 0
            /\ req[r].lookup = "none"
            /\ bg[r] = NoTask
            /\ \A k \in Keys : cache[k] = NoData
            /\ req[r].nOriginGet = (IF req[r].pc = "originGet" THEN 0 ELSE 1)
            /\ req[r].originHeld # NoData =>
                  /\ req[r].pc \in {"respond", "done"}
                  /\ Done(r) => Served(r, req[r].originHeld)

\* C13, witness: no cache, and a request answered with the bucket's bytes
\* after one R2 Get.
C13_Witness ==
    \E r \in Reqs :
        /\ ~cacheEnabled
        /\ Done(r)
        /\ req[r].nOriginGet = 1
        /\ req[r].nCacheGet = 0
        /\ origin[req[r].name] # NoData
        /\ Served(r, origin[req[r].name])

\* C14: a request whose R2 fetch succeeded can write its response at once,
\* whatever its goroutine is doing (not yet run, waiting in Set, done or
\* failed), and a response written while the goroutine has not finished is
\* the 200 with the fetched bytes.
C14_PopulationNotAwaited ==
    \A r \in Reqs :
        /\ req[r].pc = "respond" => ENABLED Respond(r)
        /\ (Done(r) /\ req[r].fetch = "ok" /\ bg[r].state = "launched") =>
              /\ Served(r, req[r].data)
              /\ req[r].nResponses = 1

\* C14, witness: the client has its 200 and the goroutine's Set has not
\* returned.
C14_Witness ==
    \E r \in Reqs :
        /\ Done(r)
        /\ req[r].fetch = "ok"
        /\ bg[r].state = "launched"
        /\ bg[r].nCacheSet = 0
        /\ Served(r, origin[req[r].name])

\* C15: a goroutine whose Set Redis did not fail has written the entry,
\* whatever happened to the request's context (deadline passed, client gone,
\* cancelled by the handler's return) before the Set returned.
C15_PopulationSurvivesRequest ==
    \A r \in Reqs :
        (bg[r].nCacheSet = 1 /\ ~bg[r].redisFailed) =>
            /\ bg[r].state = "cached"
            /\ bg[r].key = req[r].name
            /\ cacheBy[bg[r].key] = r => cache[bg[r].key] = bg[r].data

\* C15, witness: the handler returned, its context cancelled, and the
\* goroutine wrote the entry afterwards.
C15_Witness ==
    \E r \in Reqs :
        /\ Done(r)
        /\ bg[r].state = "cached"
        /\ bg[r].reqCtx = "Canceled"
        /\ cacheBy[req[r].name] = r
        /\ cache[req[r].name] = req[r].data

\* C16: a goroutine exists only for a request with a cache configured and a
\* successful R2 fetch, it sets the requested key to the fetched bytes, at
\* most once; a request that ended as a cache hit or with 400, 404, 500 or
\* 504 launched none, issued no Set and wrote no entry.
C16_PopulationOnlyAfterFetch ==
    \A r \in Reqs :
        /\ bg[r].state # "none" =>
              /\ cacheEnabled
              /\ req[r].fetch = "ok"
              /\ req[r].lookup \in {"miss", "error"}
              /\ bg[r].key = req[r].name
              /\ bg[r].data = req[r].data
        /\ bg[r].nCacheSet <= 1
        /\ bg[r].nCacheSet = 1 <=> bg[r].state \in {"cached", "failed"}
        /\ ( /\ Done(r)
             /\ \/ req[r].lookup = "hit"
                \/ req[r].resp.status \in
                      {StatusBadRequest, StatusNotFound,
                       StatusInternalServerError, StatusGatewayTimeout} )
           => /\ WritesNothing(r)
              /\ bg[r].nCacheSet = 0

\* C16, witness: with a cache configured, a request ended with 500 and
\* launched nothing, while the other request's fetch succeeded and its
\* goroutine wrote the entry.
C16_Witness ==
    \E r \in Reqs, r2 \in Reqs :
        /\ cacheEnabled
        /\ Done(r)
        /\ req[r].resp.status = StatusInternalServerError
        /\ bg[r] = NoTask
        /\ req[r2].fetch = "ok"
        /\ bg[r2].state = "cached"

\* C17: with a cache configured, a request whose R2 Get is issued or has
\* returned is past its one cache Get, which gave a miss or an error; and no
\* step of a request waits for another request: a pending cache Get and a
\* pending R2 Get can return in any state of the other requests.
C17_LookupPrecedesFetch ==
    \A r \in Reqs :
        /\ (cacheEnabled /\ (req[r].pc \in {"originGet", "respond"}
                                \/ req[r].nOriginGet > 0)) =>
              /\ req[r].nCacheGet = 1
              /\ req[r].lookup \in {"miss", "error"}
        /\ (cacheEnabled /\ req[r].pc = "cacheGet") =>
              /\ req[r].nOriginGet = 0
              /\ req[r].fetch = "none"
        /\ req[r].pc = "cacheGet" => ENABLED CacheLookup(r, FALSE)
        /\ req[r].pc = "originGet" => ENABLED OriginFetch(r, NilErr, NilErr)

\* C17, witness: the second request's R2 Get has returned while the first
\* request, for the same name, still waits for its cache Get.
C17_Witness ==
    /\ cacheEnabled
    /\ req[1].pc = "cacheGet"
    /\ req[2].name = req[1].name
    /\ req[2].nCacheGet = 1
    /\ req[2].nOriginGet = 1

\* C18: of two requests for one name whose lookups both missed, each issues
\* its own R2 Get, whatever the other has done, and each one whose fetch
\* succeeded has its own goroutine for its own bytes; a pending R2 Get is
\* never held back by the other request.
C18_NoDeduplication ==
    \A r \in Reqs, r2 \in Reqs :
        ( /\ r # r2
          /\ cacheEnabled
          /\ req[r].name = req[r2].name
          /\ req[r].lookup = "miss" /\ req[r2].lookup = "miss" )
        => /\ req[r].pc \in {"originGet", "respond", "done"}
           /\ req[r].pc = "originGet" => ENABLED OriginFetch(r, NilErr, NilErr)
           /\ req[r].pc # "originGet" => req[r].nOriginGet = 1
           /\ req[r].fetch = "ok" =>
                 /\ bg[r].state # "none"
                 /\ bg[r].key = req[r].name
                 /\ bg[r].data = req[r].data

\* C18, witness: two requests for one name, both missed, both fetched the
\* object from the bucket, and both goroutines are launched at the same time.
C18_Witness ==
    \E r \in Reqs, r2 \in Reqs :
        /\ r # r2
        /\ req[r].name = req[r2].name
        /\ req[r].lookup = "miss" /\ req[r2].lookup = "miss"
        /\ req[r].pc = "respond" /\ req[r2].pc = "respond"
        /\ req[r].nOriginGet = 1 /\ req[r2].nOriginGet = 1
        /\ bg[r].state = "launched" /\ bg[r2].state = "launched"

\* The statuses of getFileHandler's failures, each with its message.
FailureMessages ==
    { <<StatusBadRequest, "filename is required">>,
      <<StatusNotFound, "File not found">>,
      <<StatusInternalServerError, "Failed to retrieve file">>,
      <<StatusGatewayTimeout, "Request timeout">> }

\* The failure responses of getFileHandler: a JSON envelope with success
\* false, the message of the status and nothing else, the same for every two
\* failures answered with one status.
FileFailuresFixed ==
    /\ \A r \in Reqs :
          (Done(r) /\ req[r].resp.kind = "json") =>
              /\ req[r].resp.json.success = FALSE
              /\ <<req[r].resp.status, req[r].resp.json.message>> \in FailureMessages
              /\ req[r].resp.json.data = NoFields
              /\ req[r].resp.body = NoData
    /\ \A r \in Reqs, r2 \in Reqs :
          ( /\ Done(r) /\ Done(r2)
            /\ req[r].resp.kind = "json" /\ req[r2].resp.kind = "json"
            /\ req[r].resp.status = req[r2].resp.status )
          => req[r].resp = req[r2].resp

\* C19 as stated: every failure response, of a file request or of a health
\* check, is a JSON envelope with success false and a fixed message, and its
\* body holds no error text of a backend.
C19_Original ==
    /\ FileFailuresFixed
    /\ (hc.pc = "done" /\ hc.resp.status = StatusServiceUnavailable) =>
          /\ hc.resp.json.success = FALSE
          /\ hc.resp.json.message = "Service is unhealthy"
          /\ ~Contains(hc.resp.json.data.r2, hc.probeErr)
          /\ hc.pingErr # NilErr => ~Contains(hc.resp.json.data.redis, hc.pingErr)

\* C19, amended: every failure response is a JSON envelope with success false
\* and a fixed message; a file request's failure holds nothing else, so two
\* failures answered with one status get identical responses whatever the
\* backend's error text, while a health check's 503 holds in its data the
\* error text of the R2 probe and, when Ping failed, of the Redis probe.
C19_FailuresFixedMessages ==
    /\ FileFailuresFixed
    /\ (hc.pc = "done" /\ hc.resp.status = StatusServiceUnavailable) =>
          /\ hc.resp.json.success = FALSE
          /\ hc.resp.json.message = "Service is unhealthy"
          /\ hc.resp.json.data.status = <<"unhealthy">>
          /\ hc.probeErr # NilErr
          /\ hc.resp.json.data.r2 = <<"unhealthy: ">> \o hc.probeErr
          /\ hc.resp.json.data.redis = RedisField(cacheEnabled, hc.pingErr)

\* C19, witness: two requests for one name whose fetches failed with
\* different error texts, both answered with the same 500.
C19_Witness ==
    \E r \in Reqs, r2 \in Reqs :
        /\ Done(r) /\ Done(r2)
        /\ req[r].name = req[r2].name
        /\ req[r].cause = TxtRefused
        /\ req[r2].cause = TxtEOF
        /\ req[r].resp.status = StatusInternalServerError
        /\ req[r].resp = req[r2].resp

\* C20: every request answered with 200, from the cache or from the bucket,
\* carries Content-Disposition: inline; filename="<name>", the requested name
\* between the quotes character for character; no other response sets the
\* header.
C20_ContentDisposition ==
    \A r \in Reqs :
        Done(r) =>
            IF req[r].resp.status = StatusOK
            THEN /\ req[r].lookup = "hit" \/ req[r].fetch = "ok"
                 /\ Len(req[r].resp.disposition) = Len(TxtInline) + Len(req[r].name) + 1
                 /\ SubSeq(req[r].resp.disposition, 1, Len(TxtInline)) = TxtInline
                 /\ SubSeq(req[r].resp.disposition, Len(TxtInline) + 1,
                           Len(TxtInline) + Len(req[r].name)) = req[r].name
                 /\ req[r].resp.disposition[Len(req[r].resp.disposition)] = "\""
            ELSE req[r].resp.disposition = <<>>

\* C20, witness: one request served from the cache and one from the bucket,
\* both with the header for test.txt.
C20_Witness ==
    \E r \in Reqs, r2 \in Reqs :
        /\ Done(r) /\ Done(r2)
        /\ req[r].lookup = "hit" /\ req[r2].fetch = "ok"
        /\ req[r].name = NameTxt /\ req[r2].name = NameTxt
        /\ req[r].resp.disposition = TxtInline \o NameTxt \o TxtQuote
        /\ req[r2].resp.disposition = req[r].resp.disposition

\* C21: the Content-Type writeFileResponse sets is decided by the extension
\* of the name, whatever the bytes: application/pdf for .pdf in either case,
\* text/html; charset=utf-8 for .html, image/png for the last of two
\* extensions, and application/octet-stream for an extension the table does
\* not know, a bare dot, no extension, or a dot in a directory only.
C21_ContentTypeByExtension ==
    shaped.resp.kind = "file" =>
        /\ shaped.resp.status = StatusOK
        /\ shaped.resp.body = shaped.data
        /\ shaped.name \in {NameDocumentPdf, NameUpperPdf} =>
              shaped.resp.contentType = "application/pdf"
        /\ shaped.name = NamePageHtml =>
              shaped.resp.contentType = "text/html; charset=utf-8"
        /\ shaped.name = NameTwoExts => shaped.resp.contentType = "image/png"
        /\ shaped.name \in {NameUnknownExt, NameNoExt, NameDotInDir, NameBareDot} =>
              shaped.resp.contentType = "application/octet-stream"
        /\ shaped.resp.contentType # ""

\* C21, witness: document.pdf with the bytes b1 is application/pdf.
C21_Witness ==
    /\ shaped.name = NameDocumentPdf
    /\ shaped.data = "b1"
    /\ shaped.resp.contentType = "application/pdf"

\* C22 as stated: the context under which the two probes run ends by the
\* check's own timeout only, whether or not the caller's context carries a
\* deadline or is cancelled.
C22_Original ==
    (hc.pc \in {"ping", "probe"} /\ hc.ctx # "live") => hc.timedOut

\* C22, amended: both probes run under one context that ends when the
\* check's own timeout passes, whatever the caller supplies, and earlier when
\* the caller's context is cancelled or its deadline passes; an R2 probe
\* called after either has failed.
C22_TimeoutDerivedFromCaller ==
    /\ hc.pc \in {"ping", "probe"} =>
          /\ hc.ctx = "live" <=> (~hc.timedOut /\ hc.caller = "live")
          /\ hc.timedOut => hc.ctx = "DeadlineExceeded"
          /\ hc.ctx = "Canceled" => hc.caller = "Canceled"
    /\ (hc.pc = "done" /\ hc.started \in {"DeadlineExceeded", "Canceled"}) =>
          /\ hc.probeErr # NilErr
          /\ hc.resp.status = StatusServiceUnavailable

\* C22, witness: the caller went away during the Redis probe, long before
\* the timeout, and the R2 probe, called with the cancelled context, failed.
C22_Witness ==
    /\ hc.pc = "done"
    /\ hc.caller = "Canceled"
    /\ ~hc.timedOut
    /\ hc.started = "Canceled"
    /\ hc.probeErr = TxtCanceled

C24_CacheFixedAtStartup ==
    /\ [][cacheEnabled' = cacheEnabled /\ startup' = startup]_vars
    /\ [](cacheEnabled <=> (startup.mode = "enabled" /\ startup.pingErr = NilErr))
    /\ [](~cacheEnabled =>
            /\ hc.nPing = 0
            /\ \A k \in Keys : cache[k] = NoData
            /\ \A r \in Reqs :
                  /\ req[r].nCacheGet = 0
                  /\ req[r].lookup = "none"
                  /\ WritesNothing(r)
                  /\ (Done(r) /\ req[r].resp.kind = "file") =>
                        /\ req[r].nOriginGet = 1
                        /\ Served(r, req[r].originHeld))

\* C24, witness: Redis refused the connection at startup, and a request has
\* been served from R2 all the same.
C24_Witness ==
    \E r \in Reqs :
        /\ startup.mode = "enabled"
        /\ startup.pingErr = TxtRefused
        /\ Done(r)
        /\ Served(r, origin[req[r].name])
        /\ req[r].nCacheGet = 0

\* What the documentation promises for REDIS_DB and CACHE_TTL, text by text:
\* the value of a parsable text, the documented default (0, one hour) for
\* every other.
DocumentedDB(text) ==
    CASE text = <<"0">> -> 0
      [] text = <<"1">> -> 1
      [] text = <<"1", "5">> -> 15
      [] text = <<"-", "1">> -> 0 - 1
      [] text = <<"+", "3">> -> 3
      [] OTHER -> 0

DocumentedTTL(text) ==
    CASE text = <<"1", "h">> -> Hour
      [] text = <<"3", "0", "m">> -> 30 * Minute
      [] text = <<"2", "h">> -> 2 * Hour
      [] text = <<"2", "4", "h">> -> 24 * Hour
      [] text = <<"1", "h", "3", "0", "m">> -> 90 * Minute
      [] text = <<"1", ".", "5", "h">> -> 90 * Minute
      [] text = <<"9", "0", "s">> -> 90 * Second
      [] text = <<"0">> -> 0
      [] OTHER -> Hour

\* Everything of C25 but the TTL: texts are used as given when set and not
\* empty, REDIS_DB when it is a number, and the defaults are 8080,
\* localhost:6379 and 0.
DocumentedButTTL ==
    config.loaded =>
        /\ config.cfg.Port = IF config.env["PORT"] \in {Unset, Empty}
                              THEN TxtPort8080 ELSE config.env["PORT"]
        /\ config.cfg.Redis.Addr = IF config.env["REDIS_ADDR"] \in {Unset, Empty}
                                    THEN TxtLocalhost ELSE config.env["REDIS_ADDR"]
        /\ config.cfg.Redis.DB = DocumentedDB(config.env["REDIS_DB"])

\* C25: the loaded configuration holds, for each of PORT, REDIS_ADDR,
\* REDIS_DB and CACHE_TTL, the value of the variable when it is set and
\* parsable, and else the documented default: 8080, localhost:6379, 0, 1h.
C25_DocumentedDefaults ==
    /\ DocumentedButTTL
    /\ config.loaded =>
          config.cfg.Redis.CacheTTL = DocumentedTTL(config.env["CACHE_TTL"])

\* C26: while the bucket's content does not change, an entry written by a
\* population holds the bucket's bytes for its key, under every interleaving
\* of requests and goroutines; populations of one key that have both
\* succeeded stored the same bytes, so the entry is the same whichever of
\* them wrote last.
C26_ConcurrentPopulationsHarmless ==
    /\ \A k \in Keys :
          cacheBy[k] # 0 =>
              /\ origin[k] # NoData
              /\ cache[k] = origin[k]
    /\ \A r \in Reqs, r2 \in Reqs :
          (r # r2 /\ bg[r].state = "cached" /\ bg[r2].state = "cached"
                  /\ bg[r].key = bg[r2].key) =>
              /\ bg[r].data = bg[r2].data
              /\ cache[bg[r].key] \in {NoData, bg[r].data}
              /\ cacheBy[bg[r].key] \in {0, r, r2}

\* C26, witness: two requests for one key both missed, both fetched, and
\* both goroutines have written; the first one's write came last.
C26_Witness ==
    \E r \in Reqs, r2 \in Reqs :
        /\ r < r2
        /\ req[r].lookup = "miss" /\ req[r2].lookup = "miss"
        /\ req[r].name = req[r2].name
        /\ bg[r].state = "cached" /\ bg[r2].state = "cached"
        /\ cacheBy[req[r].name] = r
        /\ cache[req[r].name] = origin[req[r].name]

\* C27: an entry written by a request's goroutine lies under the name that
\* request asked for and holds the bytes the bucket answered that request's
\* fetch with, which the bucket held for the name at some time, whatever it
\* holds now; a goroutine carries nothing else.
C27_WritesWhatOriginReturned ==
    /\ \A r \in Reqs :
          bg[r].state # "none" =>
              /\ bg[r].key = req[r].name
              /\ bg[r].data = req[r].originHeld
              /\ bg[r].data # NoData
    /\ \A k \in Keys, r \in Reqs :
          cacheBy[k] = r =>
              /\ k = req[r].name
              /\ cache[k] = req[r].originHeld
              /\ cache[k] \in originWas[k] \ {NoData}
    /\ \A k \in Keys :
          cacheBy[k] = 0 => cache[k] \in InitialCache \cup {NoData}

\* C27, witness: the bucket's object changed between the fetches of two
\* overlapping requests; the entry holds what the first one fetched, which
\* the bucket no longer holds, and the second one's write is still to come.
C27_Witness ==
    \E r \in Reqs, r2 \in Reqs :
        /\ req[r].name \in Keys
        /\ req[r].name = req[r2].name
        /\ cacheBy[req[r].name] = r
        /\ cache[req[r].name] # origin[req[r].name]
        /\ origin[req[r].name] # NoData
        /\ bg[r2].state = "launched"
        /\ bg[r2].data = origin[req[r].name]

\* C28: a request makes at most one cache Get, one R2 Get and one cache Set;
\* after a failed lookup or a failed fetch the same call is not made again,
\* and a goroutine whose Set failed is over: it makes no further call and
\* has left no entry.
C28_NoRetries ==
    \A r \in Reqs :
        /\ req[r].nCacheGet <= 1
        /\ req[r].nOriginGet <= 1
        /\ bg[r].nCacheSet <= 1
        /\ req[r].lookup = "error" => req[r].nCacheGet = 1
        /\ req[r].fetch = "failed" => (req[r].nOriginGet = 1 /\ Done(r))
        /\ bg[r].state = "failed" =>
              /\ bg[r].nCacheSet = 1
              /\ ~ENABLED Populate(r, TRUE)
              /\ ~ENABLED Populate(r, FALSE)
              /\ \A k \in Keys : cacheBy[k] # r

\* C28, witness: a request whose lookup failed and whose population failed
\* has ended after one call of each kind.
C28_Witness ==
    \E r \in Reqs :
        /\ Done(r)
        /\ req[r].lookup = "error"
        /\ req[r].nCacheGet = 1
        /\ req[r].nOriginGet = 1
        /\ bg[r].state = "failed"
        /\ bg[r].nCacheSet = 1

\* C29: a file request that has arrived ends, and when it has ended exactly
\* one response has been written, with status 200, 400, 404, 500 or 504;
\* before that none has, and none is written afterwards.
C29_OneResponse ==
    /\ [](\A r \in Reqs :
            /\ req[r].nResponses = IF Done(r) THEN 1 ELSE 0
            /\ Done(r) => req[r].resp.status \in
                    {StatusOK, StatusBadRequest, StatusNotFound,
                     StatusInternalServerError, StatusGatewayTimeout}
            /\ ~Done(r) => req[r].resp = NoResponse)
    /\ [][\A r \in Reqs : Done(r) => req'[r] = req[r]]_vars
    /\ \A r \in Reqs : (req[r].pc # "idle") ~> Done(r)

\* C29, witness: both requests have ended, one with 504 after its deadline
\* passed during the fetch, one with 200.
C29_Witness ==
    \E r \in Reqs, r2 \in Reqs :
        /\ Done(r) /\ Done(r2)
        /\ req[r].resp.status = StatusGatewayTimeout
        /\ req[r].nResponses = 1
        /\ req[r2].resp.status = StatusOK
        /\ req[r2].nResponses = 1

\* C30: a launched goroutine ends, with the entry written or the failure
\* logged, after one Set; what becomes of the request's context in the
\* meantime neither ends it nor fails it: only Redis, or the goroutine's own
\* timeout, does.
C30_PopulationTerminates ==
    /\ [](\A r \in Reqs :
            /\ bg[r].state = "launched" => (bg[r].nCacheSet = 0 /\ ENABLED TaskStep(r))
            /\ bg[r].state \in {"cached", "failed"} => bg[r].nCacheSet = 1
            /\ bg[r].state = "failed" => bg[r].redisFailed)
    /\ \A r \in Reqs :
          (bg[r].state = "launched") ~> (bg[r].state \in {"cached", "failed"})

\* C30, witness: a goroutine whose request had ended, its context cancelled,
\* ran its Set under its own context and logged Redis' failure.
C30_Witness ==
    \E r \in Reqs :
        /\ Done(r)
        /\ bg[r].state = "failed"
        /\ bg[r].reqCtx = "Canceled"
        /\ bg[r].redisFailed

\* C31: a health check that has answered made one R2 probe, whatever the
\* Redis check gave, and one Redis probe when there is a cache and none when
\* there is not; before the answer it made at most one of each.  When the R2
\* probe failed the answer's data hold r2 as "unhealthy: " and the probe's
\* error text, status "unhealthy", and the redis field the Redis check gave.
C31_OneOriginProbe ==
    /\ hc.nProbe <= 1 /\ hc.nPing <= 1
    /\ ~cacheEnabled => hc.nPing = 0
    /\ hc.pc = "probe" => (hc.nProbe = 0 /\ hc.nPing = IF cacheEnabled THEN 1 ELSE 0)
    /\ hc.pc = "done" =>
          /\ hc.nProbe = 1
          /\ hc.nPing = IF cacheEnabled THEN 1 ELSE 0
          /\ hc.resp.json.data.redis = RedisField(cacheEnabled, hc.pingErr)
          /\ hc.probeErr # NilErr =>
                /\ hc.resp.status = StatusServiceUnavailable
                /\ hc.resp.json.data.status = <<"unhealthy">>
                /\ hc.resp.json.data.r2 = <<"unhealthy: ">> \o hc.probeErr

\* C31, witness: both probes failed on their own, under a live context, and
\* the answer names both failures.
C31_Witness ==
    /\ hc.pc = "done"
    /\ cacheEnabled
    /\ hc.started = "live"
    /\ hc.pingErr = TxtRefused
    /\ hc.probeErr = TxtRefused
    /\ hc.nProbe = 1
    /\ hc.resp.json.data.r2 = <<"unhealthy: ">> \o TxtRefused
    /\ hc.resp.json.data.redis = <<"unhealthy: ">> \o TxtRefused

\* C32: the answer of a health check is what the handler makes of that
\* check's own two probe results, whatever the check before it answered; and
\* no step of a health check changes an entry of the cache or an object of
\* the bucket.
C32_HealthComputedFresh ==
    /\ [](hc.pc = "done" =>
            hc.resp = HealthResponse(
                          [NoFields EXCEPT
                              !.status = <<"healthy">>,
                              !.redis = RedisField(cacheEnabled, hc.pingErr)],
                          hc.probeErr))
    /\ [][hc' # hc => (cache' = cache /\ cacheBy' = cacheBy /\ origin' = origin)]_vars

\* C32, witness: the check before answered 503, R2 has recovered, and this
\* check answers 200 with r2 "healthy".
C32_Witness ==
    /\ hc.pc = "done"
    /\ hc.checks = 2
    /\ hc.last.status = StatusServiceUnavailable
    /\ hc.probeErr = NilErr
    /\ hc.resp.status = StatusOK
    /\ hc.resp.json.data.r2 = <<"healthy">>

\* C33: no step of the service (a file request, its goroutine, a health
\* check) changes an object of the bucket: the bucket holds, key by key, what
\* it held at the start, and the service never makes the change a PutObject
\* or a DeleteObject would make.
C33_OriginReadOnly ==
    /\ [][origin' = origin]_vars
    /\ [](\A k \in Keys : originWas[k] = {origin[k]})

\* C33, witness: requests have been served, one after a fetch whose body
\* could not be read, a goroutine has written the cache, and the bucket is
\* as it was.
C33_Witness ==
    \E r \in Reqs, r2 \in Reqs :
        /\ Done(r) /\ Done(r2)
        /\ bg[r].state = "cached"
        /\ req[r2].fetch = "failed"
        /\ req[r2].cause = TxtEOF
        /\ req[r2].name \in Keys
        /\ origin[req[r2].name] # NoData
        /\ originWas[req[r2].name] = {origin[req[r2].name]}

\* C34: the counters hold, at every moment, one hit or one miss for each
\* lookup that has returned (a failed lookup is a miss) and one R2 success or
\* one R2 error for each fetch that has returned; with a cache, the misses
\* are the fetches that were started, and once none is under way they are
\* the fetches the R2 counters hold.  Without a cache nothing is counted as
\* hit or miss.
C34_CountersAccount ==
    /\ metrics.CacheHitsTotal = Cardinality({r \in Reqs : req[r].lookup = "hit"})
    /\ metrics.CacheMissesTotal =
          Cardinality({r \in Reqs : req[r].lookup \in {"miss", "error"}})
    /\ metrics.CacheHitsTotal + metrics.CacheMissesTotal =
          Cardinality({r \in Reqs : req[r].nCacheGet = 1})
    /\ metrics.R2Success = Cardinality({r \in Reqs : req[r].fetch = "ok"})
    /\ metrics.R2Error = Cardinality({r \in Reqs : req[r].fetch = "failed"})
    /\ metrics.R2Success + metrics.R2Error =
          Cardinality({r \in Reqs : req[r].nOriginGet = 1})
    /\ cacheEnabled =>
          /\ metrics.CacheMissesTotal =
                Cardinality({r \in Reqs : req[r].pc = "originGet" \/ req[r].nOriginGet = 1})
          /\ (\A r \in Reqs : req[r].pc # "originGet") =>
                metrics.CacheMissesTotal = metrics.R2Success + metrics.R2Error
    /\ ~cacheEnabled => (metrics.CacheHitsTotal = 0 /\ metrics.CacheMissesTotal = 0)

\* C34, witness: one request was a hit, the other's lookup failed and its
\* fetch failed too: one hit, one miss, one R2 error.
C34_Witness ==
    /\ \A r \in Reqs : Done(r)
    /\ \E r \in Reqs : req[r].lookup = "error" /\ req[r].fetch = "failed"
    /\ metrics.CacheHitsTotal = 1
    /\ metrics.CacheMissesTotal = 1
    /\ metrics.R2Error = 1
    /\ metrics.R2Success = 0

\* C35: fileCache.Get returns one of three results: the stored bytes (be
\* they empty), found true and no error for a key Redis holds; no bytes,
\* found false and no error for a key it does not hold; no bytes, found
\* false and the wrapped error when the call fails.  It never returns found
\* true with an error.
C35_GetThreeResults ==
    client.fn = "Get" =>
        /\ (~client.fail /\ client.c[client.key] # NoData) =>
              client.out = [data |-> client.c[client.key], found |-> TRUE, err |-> NilErr]
        /\ (~client.fail /\ client.c[client.key] = NoData) =>
              client.out = [data |-> NoData, found |-> FALSE, err |-> NilErr]
        /\ client.fail =>
              /\ client.out.data = NoData
              /\ client.out.found = FALSE
              /\ client.out.err = <<"redis get error: ">> \o RedisFailure
        /\ ~(client.out.found /\ client.out.err # NilErr)

\* C35, witness: a key stored with no bytes is a hit with empty data.
C35_Witness ==
    /\ client.fn = "Get"
    /\ ~client.fail
    /\ client.c[client.key] = EmptyBytes
    /\ client.out.found
    /\ client.out.data = EmptyBytes
    /\ client.out.err = NilErr

====
